---- MODULE Spec2Model ----
(***************************************************************************)
(* CLI process streaming and session reconciliation of ccfoundation:       *)
(* the two process registries (sessions/resume.rs RunningProcesses and     *)
(* chat/claude_cli.rs StreamProcesses), the three stream pumps             *)
(* (create_session, resume_session, spawn_claude_stream), the two line     *)
(* parsers (parse_stream_event, parse_claude_message) and the two cancel   *)
(* entry points (cancel_session, cancel_stream).                           *)
(***************************************************************************)
EXTENDS Integers, Sequences, FiniteSets, TLC

VARIABLES
    procs,        \* RunningProcesses: session key -> subprocess (sessions/resume.rs)
    streamProcs,  \* StreamProcesses: session key -> subprocess (chat/claude_cli.rs)
    streamLock,   \* 0, or the chat stream whose cleanup holds the StreamProcesses
                  \* mutex while it awaits child.wait()
    child,        \* per subprocess: how it was started, whether it runs, what was
                  \* done with its Child handle
    pump,         \* per subprocess: the stdout reader's position and its ParseState
    lines,        \* per subprocess: the stdout lines its pump has read so far
    sink,         \* per subprocess: the events its pump handed to app.emit, in order
    ret,          \* the Result the last command returned to its caller
    stderr,       \* per subprocess: what it wrote to its stderr pipe and nobody has
                  \* read yet, and what was read from the pipe and logged
    files,        \* ~/.ccconfig/chat-sessions: session id -> content of <id>.json
    project       \* the project path last looked up, its directory name under
                  \* ~/.claude/projects, and what that name decodes to

vars ==
    <<procs, streamProcs, streamLock, child, pump, lines, sink, ret,
      stderr, files, project>>

----------------------------------------------------------------------------
(* Bounds of the model. *)

\* subprocesses spawned in one behaviour of Spec
MaxProcs == 2
\* stdout lines read, over all streams, in one behaviour of Spec
MaxReads == 2
\* stdout lines read by the one stream of SpecPump
MaxLines == 4
\* stdout lines read by the one stream of SpecLines
MaxCases == 3
\* stdout lines read, over all streams, in one behaviour of SpecStart
MaxStartReads == 1
\* stdout lines read by the one stream of SpecVerbose
MaxVerbose == 3
\* stderr lines a subprocess writes in one behaviour of SpecStderr
MaxStderr == 2
\* characters of a project path in SpecProject
MaxPathLen == 4

----------------------------------------------------------------------------
(* JSON lines.  A line is a record of the fields the parsers look at; a     *)
(* field that is missing, or is not a string, holds Absent.                 *)

Absent == "<absent>"

Json(type) ==
    [raw |-> "json", type |-> type, etype |-> Absent, eid |-> Absent,
     etext |-> Absent, sid |-> Absent, mid |-> Absent, content |-> <<>>,
     err |-> Absent]

\* a line that is empty after trim()
BlankLine == [Json(Absent) EXCEPT !.raw = "blank"]
\* a line serde_json::from_str rejects
GarbageLine == [Json(Absent) EXCEPT !.raw = "garbage"]

\* {"type":"stream_event","event":{"type":"message_start","message":{"id":id}}}
WStart(id) == [Json("stream_event") EXCEPT !.etype = "message_start", !.eid = id]
\* {"type":"stream_event","event":{"type":"content_block_delta","delta":{"text":t}}}
WDelta(t) == [Json("stream_event") EXCEPT !.etype = "content_block_delta", !.etext = t]
\* {"type":"stream_event","event":{"type":"message_stop"}}
WStop == [Json("stream_event") EXCEPT !.etype = "message_stop"]
\* {"type":"system","session_id":sid}
SystemLine(sid) == [Json("system") EXCEPT !.sid = sid]
\* {"type":"assistant","message":{"id":mid,"content":[{"text":..},..]}}; a block
\* without a string "text" (a tool_use block) is Absent in content
Assistant(mid, content) == [Json("assistant") EXCEPT !.mid = mid, !.content = content]
\* {"type":"result"}
ResultLine == Json("result")
\* {"type":"error","error":msg}
ErrorLine(msg) == [Json("error") EXCEPT !.err = msg]

MsgIds == {"m1", "m2"}
Texts == {"a", "b"}
SessionIds == {"X", "Y"}

WrappedLines == {WStart(m) : m \in MsgIds} \cup {WDelta(t) : t \in Texts} \cup {WStop}

\* the lines of SpecPump: both wire schemas, as the agent mixes them under
\* --verbose --include-partial-messages
PumpLines ==
    WrappedLines \cup {Assistant("m1", <<"a">>), Assistant("m2", <<"b">>), ResultLine}

\* the lines of Spec: the ones that move the registry (system) and one that
\* yields an event
RegLines == {SystemLine(s) : s \in SessionIds} \cup {WDelta("a")}

----------------------------------------------------------------------------
(* Stream events. *)

NoEvent == [type |-> "None"]
MessageStart(m) == [type |-> "messageStart", messageId |-> m]
ContentDelta(m, d) == [type |-> "contentDelta", messageId |-> m, delta |-> d]
MessageComplete(m, c) == [type |-> "messageComplete", messageId |-> m, content |-> c]
SessionIdUpdated(t, r) == [type |-> "sessionIdUpdated", tempId |-> t, realId |-> r]
ErrorEvent(e) == [type |-> "error", error |-> e]

\* what a parser call leaves: the event (or NoEvent) and the two ParseState fields
Parsed(ev, cur, acc) == [ev |-> ev, cur |-> cur, acc |-> acc]

\* index of the first block of content that holds a string "text", 0 if none
RECURSIVE FirstText(_, _)
FirstText(content, i) ==
    IF i > Len(content) THEN 0
    ELSE IF content[i] # Absent THEN i
    ELSE FirstText(content, i + 1)

\* WrappedEvent whose message_start keeps the content accumulated so far
WrappedEvent_noreset(j, cur, acc) ==
    IF j.etype = Absent THEN Parsed(NoEvent, cur, acc)
    ELSE IF j.etype = "message_start" THEN
        IF j.eid = Absent THEN Parsed(NoEvent, cur, acc)
        ELSE Parsed(MessageStart(j.eid), j.eid, acc)
    ELSE IF j.etype = "content_block_delta" THEN
        IF j.etext = Absent THEN Parsed(NoEvent, cur, acc)
        ELSE Parsed(ContentDelta(cur, j.etext), cur, acc \o j.etext)
    ELSE IF j.etype = "message_stop" THEN
        Parsed(MessageComplete(cur, acc), cur, acc)
    ELSE Parsed(NoEvent, cur, acc)

\* WrappedEvent whose message_stop clears the ParseState
WrappedEvent_stopreset(j, cur, acc) ==
    IF j.etype = Absent THEN Parsed(NoEvent, cur, acc)
    ELSE IF j.etype = "message_start" THEN
        IF j.eid = Absent THEN Parsed(NoEvent, cur, acc)
        ELSE Parsed(MessageStart(j.eid), j.eid, "")
    ELSE IF j.etype = "content_block_delta" THEN
        IF j.etext = Absent THEN Parsed(NoEvent, cur, acc)
        ELSE Parsed(ContentDelta(cur, j.etext), cur, acc \o j.etext)
    ELSE IF j.etype = "message_stop" THEN
        Parsed(MessageComplete(cur, acc), "", "")
    ELSE Parsed(NoEvent, cur, acc)

\* WrappedEvent with the delta put in front of the accumulated content
WrappedEvent_prepend(j, cur, acc) ==
    IF j.etype = Absent THEN Parsed(NoEvent, cur, acc)
    ELSE IF j.etype = "message_start" THEN
        IF j.eid = Absent THEN Parsed(NoEvent, cur, acc)
        ELSE Parsed(MessageStart(j.eid), j.eid, "")
    ELSE IF j.etype = "content_block_delta" THEN
        IF j.etext = Absent THEN Parsed(NoEvent, cur, acc)
        ELSE Parsed(ContentDelta(cur, j.etext), cur, j.etext \o acc)
    ELSE IF j.etype = "message_stop" THEN
        Parsed(MessageComplete(cur, acc), cur, acc)
    ELSE Parsed(NoEvent, cur, acc)

\* the "stream_event" arm shared by both parsers
WrappedEvent(j, cur, acc) ==
    IF j.etype = Absent THEN Parsed(NoEvent, cur, acc)
    ELSE IF j.etype = "message_start" THEN
        IF j.eid = Absent THEN Parsed(NoEvent, cur, acc)
        ELSE Parsed(MessageStart(j.eid), j.eid, "")
    ELSE IF j.etype = "content_block_delta" THEN
        IF j.etext = Absent THEN Parsed(NoEvent, cur, acc)
        ELSE Parsed(ContentDelta(cur, j.etext), cur, acc \o j.etext)
    ELSE IF j.etype = "message_stop" THEN
        Parsed(MessageComplete(cur, acc), cur, acc)
    ELSE Parsed(NoEvent, cur, acc)

\* AssistantEvent that takes the last block holding a string "text"
AssistantEvent_lasttext(j, cur, acc) ==
    IF j.mid = Absent THEN Parsed(NoEvent, cur, acc)
    ELSE LET cur1 == IF cur = "" THEN j.mid ELSE cur
             acc1 == IF cur = "" THEN "" ELSE acc
             texts == {k \in 1..Len(j.content) : j.content[k] # Absent}
         IN  IF texts = {} THEN Parsed(NoEvent, cur1, acc1)
             ELSE LET i == CHOOSE k \in texts : \A x \in texts : x <= k
                  IN  Parsed(ContentDelta(j.mid, j.content[i]), cur1, j.content[i])

\* the "assistant" arm of parse_stream_event
AssistantEvent(j, cur, acc) ==
    IF j.mid = Absent THEN Parsed(NoEvent, cur, acc)
    ELSE LET cur1 == IF cur = "" THEN j.mid ELSE cur
             acc1 == IF cur = "" THEN "" ELSE acc
             i == FirstText(j.content, 1)
         IN  IF i = 0 THEN Parsed(NoEvent, cur1, acc1)
             ELSE Parsed(ContentDelta(j.mid, j.content[i]), cur1, j.content[i])

\* parse_stream_event whose result arm leaves ParseState as it is
parse_stream_event_keep(j, cur, acc) ==
    IF j.type = Absent THEN Parsed(NoEvent, cur, acc)
    ELSE IF j.type = "stream_event" THEN WrappedEvent(j, cur, acc)
    ELSE IF j.type = "system" THEN Parsed(NoEvent, cur, acc)
    ELSE IF j.type = "assistant" THEN AssistantEvent(j, cur, acc)
    ELSE IF j.type = "result" THEN
        IF cur # "" THEN Parsed(MessageComplete(cur, acc), cur, acc)
        ELSE Parsed(NoEvent, cur, acc)
    ELSE IF j.type = "error" THEN
        IF j.err # Absent THEN Parsed(ErrorEvent(j.err), cur, acc)
        ELSE Parsed(ErrorEvent("Unknown error"), cur, acc)
    ELSE Parsed(NoEvent, cur, acc)

\* sessions/resume.rs parse_stream_event
parse_stream_event(j, cur, acc) ==
    IF j.type = Absent THEN Parsed(NoEvent, cur, acc)
    ELSE IF j.type = "stream_event" THEN WrappedEvent(j, cur, acc)
    ELSE IF j.type = "system" THEN Parsed(NoEvent, cur, acc)
    ELSE IF j.type = "assistant" THEN AssistantEvent(j, cur, acc)
    ELSE IF j.type = "result" THEN
        IF cur # "" THEN Parsed(MessageComplete(cur, acc), "", "")
        ELSE Parsed(NoEvent, cur, acc)
    ELSE IF j.type = "error" THEN
        IF j.err # Absent THEN Parsed(ErrorEvent(j.err), cur, acc)
        ELSE Parsed(ErrorEvent("Unknown error"), cur, acc)
    ELSE Parsed(NoEvent, cur, acc)

\* chat/claude_cli.rs parse_claude_message
parse_claude_message(j, cur, acc) ==
    IF j.type = Absent THEN Parsed(NoEvent, cur, acc)
    ELSE IF j.type = "stream_event" THEN WrappedEvent(j, cur, acc)
    ELSE Parsed(NoEvent, cur, acc)

----------------------------------------------------------------------------
(* The registries: HashMap<String, Child> behind one tokio Mutex each. *)

EmptyMap == [k \in {} |-> 0]
\* HashMap::insert: an entry already under k is replaced
Insert(m, k, p) == [x \in DOMAIN m \cup {k} |-> IF x = k THEN p ELSE m[x]]
\* HashMap::remove
Remove(m, k) == [x \in DOMAIN m \ {k} |-> m[x]]

\* format!("temp-{}", uuid::Uuid::new_v4()): a key no other call produces
TempKey(p) == "temp-" \o ToString(p)

Ok(v) == [ok |-> TRUE, val |-> v]
Err(e) == [ok |-> FALSE, val |-> e]
NotRunning == Err("Session is not running")
\* before any command has returned
NoReturn == Ok(Absent)

\* the inputs of a command that starts a stream
Paths == {"abs", "rel", "missing", "nocanon"}
Spawns == {"ok", "fail", "no_stdout"}

NoChild == [kind |-> "none", key |-> "", alive |-> FALSE, fate |-> <<>>]
NoPump ==
    [pc |-> "idle", cur |-> "", acc |-> "", real |-> Absent, wait |-> 0, end |-> ""]
Reading == [NoPump EXCEPT !.pc = "reading"]
\* an empty stderr pipe and nothing logged from it
NoStderr == [pipe |-> 0, logged |-> 0]
\* no project path looked up yet
NoProject == [path |-> <<>>, dir |-> <<>>, decoded |-> [some |-> FALSE]]

\* the Child handle of subprocess h is consumed: killed (Cancel, or no stdout),
\* awaited (chat cleanup) or dropped (removed or replaced in a map and let go)
Consume(c, h, how) == [c EXCEPT ![h].fate = Append(@, how)]

\* a map entry removed or replaced by code that lets the Child go out of scope
DropAt(c, m, k) == IF k \in DOMAIN m THEN Consume(c, m[k], "drop") ELSE c

Spawned == {p \in DOMAIN child : child[p].kind # "none"}
\* subprocess ids are handed out in order
IsNext(p) == p = Cardinality(Spawned) + 1

RECURSIVE TotalReads(_)
TotalReads(S) ==
    IF S = {} THEN 0
    ELSE LET p == CHOOSE x \in S : TRUE
         IN  Len(lines[p]) + TotalReads(S \ {p})

Init ==
    /\ procs = EmptyMap
    /\ streamProcs = EmptyMap
    /\ streamLock = 0
    /\ child = [p \in 1..MaxProcs |-> NoChild]
    /\ pump = [p \in 1..MaxProcs |-> NoPump]
    /\ lines = [p \in 1..MaxProcs |-> <<>>]
    /\ sink = [p \in 1..MaxProcs |-> <<>>]
    /\ ret = NoReturn
    /\ stderr = [p \in 1..MaxProcs |-> NoStderr]
    /\ files = EmptyMap
    /\ project = NoProject

----------------------------------------------------------------------------
(* Commands that start a stream. *)

\* what the validation of sessions/resume.rs returns before the spawn, "" if it passes
SessionPrecheck(cli, path) ==
    IF ~cli THEN "Claude CLI is not installed. Please install it first."
    ELSE IF path = "missing" THEN "Project path does not exist"
    ELSE IF path = "nocanon" THEN "Failed to canonicalize path"
    ELSE ""

\* chat/claude_cli.rs validate_project_path
validate_project_path(path) ==
    IF path = "rel" THEN "Project path must be absolute"
    ELSE IF path = "missing" THEN "Project path does not exist"
    ELSE IF path = "nocanon" THEN "Failed to canonicalize path"
    ELSE ""

\* KilledAtSpawn that returns the error and leaves the subprocess running
KilledAtSpawn_leak(kind, key) ==
    [kind |-> kind, key |-> key, alive |-> TRUE, fate |-> <<>>]

\* the child was spawned without a stdout handle: killed at once, never registered
KilledAtSpawn(kind, key) ==
    [kind |-> kind, key |-> key, alive |-> FALSE, fate |-> <<"kill">>]

Running(kind, key) == [kind |-> kind, key |-> key, alive |-> TRUE, fate |-> <<>>]

\* sessions/resume.rs resume_session, up to its return
resume_session(p, sid, cli, path, spawn) ==
    /\ IsNext(p)
    /\ LET pre == SessionPrecheck(cli, path)
       IN  IF pre # "" THEN
               /\ ret' = Err(pre)
               /\ UNCHANGED <<procs, child, pump>>
           ELSE IF spawn = "fail" THEN
               /\ ret' = Err("Failed to spawn Claude CLI")
               /\ UNCHANGED <<procs, child, pump>>
           ELSE IF spawn = "no_stdout" THEN
               /\ child' = [child EXCEPT ![p] = KilledAtSpawn("resume", sid)]
               /\ ret' = Err("Failed to get stdout")
               /\ UNCHANGED <<procs, pump>>
           ELSE
               /\ procs' = Insert(procs, sid, p)
               /\ child' = [DropAt(child, procs, sid) EXCEPT ![p] = Running("resume", sid)]
               /\ pump' = [pump EXCEPT ![p] = Reading]
               /\ ret' = Ok("")
    /\ UNCHANGED <<streamProcs, streamLock, lines, sink>>
    /\ UNCHANGED <<stderr, files, project>>

\* create_session that starts the pump and returns the key without the insert
create_session_unregistered(p, cli, path, spawn) ==
    /\ IsNext(p)
    /\ LET pre == SessionPrecheck(cli, path)
       IN  IF pre # "" THEN
               /\ ret' = Err(pre)
               /\ UNCHANGED <<procs, child, pump>>
           ELSE IF spawn = "fail" THEN
               /\ ret' = Err("Failed to spawn Claude CLI")
               /\ UNCHANGED <<procs, child, pump>>
           ELSE IF spawn = "no_stdout" THEN
               /\ child' = [child EXCEPT ![p] = KilledAtSpawn("create", TempKey(p))]
               /\ ret' = Err("Failed to get stdout")
               /\ UNCHANGED <<procs, pump>>
           ELSE
               /\ child' = [child EXCEPT ![p] = Running("create", TempKey(p))]
               /\ pump' = [pump EXCEPT ![p] = Reading]
               /\ ret' = Ok(TempKey(p))
               /\ UNCHANGED procs
    /\ UNCHANGED <<streamProcs, streamLock, lines, sink>>
    /\ UNCHANGED <<stderr, files, project>>

\* sessions/resume.rs create_session, up to its return
create_session(p, cli, path, spawn) ==
    /\ IsNext(p)
    /\ LET pre == SessionPrecheck(cli, path)
       IN  IF pre # "" THEN
               /\ ret' = Err(pre)
               /\ UNCHANGED <<procs, child, pump>>
           ELSE IF spawn = "fail" THEN
               /\ ret' = Err("Failed to spawn Claude CLI")
               /\ UNCHANGED <<procs, child, pump>>
           ELSE IF spawn = "no_stdout" THEN
               /\ child' = [child EXCEPT ![p] = KilledAtSpawn("create", TempKey(p))]
               /\ ret' = Err("Failed to get stdout")
               /\ UNCHANGED <<procs, pump>>
           ELSE
               /\ procs' = Insert(procs, TempKey(p), p)
               /\ child' = [DropAt(child, procs, TempKey(p)) EXCEPT
                                ![p] = Running("create", TempKey(p))]
               /\ pump' = [pump EXCEPT ![p] = Reading]
               /\ ret' = Ok(TempKey(p))
    /\ UNCHANGED <<streamProcs, streamLock, lines, sink>>
    /\ UNCHANGED <<stderr, files, project>>

\* chat/claude_cli.rs spawn_claude_stream, up to the start of its read loop; the
\* function returns only when the stream is over
spawn_claude_stream(p, sid, path, spawn) ==
    /\ IsNext(p)
    /\ LET pre == validate_project_path(path)
       IN  IF pre # "" THEN
               /\ ret' = Err(pre)
               /\ UNCHANGED <<streamProcs, child, pump>>
           ELSE IF spawn = "fail" THEN
               /\ ret' = Err("Failed to spawn Claude CLI")
               /\ UNCHANGED <<streamProcs, child, pump>>
           ELSE IF spawn = "no_stdout" THEN
               /\ child' = [child EXCEPT ![p] = KilledAtSpawn("chat", sid)]
               /\ ret' = Err("Failed to get stdout")
               /\ UNCHANGED <<streamProcs, pump>>
           ELSE
               /\ streamLock = 0
               /\ streamProcs' = Insert(streamProcs, sid, p)
               /\ child' = [DropAt(child, streamProcs, sid) EXCEPT
                                ![p] = Running("chat", sid)]
               /\ pump' = [pump EXCEPT ![p] = Reading]
               /\ UNCHANGED ret
    /\ UNCHANGED <<procs, streamLock, lines, sink>>
    /\ UNCHANGED <<stderr, files, project>>

----------------------------------------------------------------------------
(* The stream pumps: one step per stdout line, then the end of the loop. *)

\* app.emit(channel, event)
Emit(q, chan, ev) == Append(q, [chan |-> chan, ev |-> ev])
EmitIfSome(q, chan, ev) == IF ev = NoEvent THEN q ELSE Emit(q, chan, ev)

SessionChan(k) == "session-stream:" \o k
ChatChan(k) == "chat-stream:" \o k

\* Rekey that removes the temporary key and loses the handle
Rekey_lose(m, t, x) == Remove(m, t)

\* Rekey that inserts under the announced id and forgets to remove the temporary key
Rekey_keep(m, t, x) == IF t \in DOMAIN m THEN Insert(m, x, m[t]) ELSE m

\* the reconciliation step of create_session: remove under the temporary key and,
\* if an entry was there, insert it under the announced id
Rekey(m, t, x) == IF t \in DOMAIN m THEN Insert(Remove(m, t), x, m[t]) ELSE m

\* the handle Rekey's insert replaces, if any, goes out of scope
RekeyDrop(c, m, t, x) ==
    IF t \in DOMAIN m /\ x \in DOMAIN Remove(m, t) THEN Consume(c, m[x], "drop") ELSE c

\* resume_read that reconciles on a system line as create_session's pump does
resume_read_rekey(p, l) ==
    /\ child[p].kind = "resume"
    /\ pump[p].pc = "reading"
    /\ lines' = [lines EXCEPT ![p] = Append(@, l)]
    /\ IF l.raw # "json" THEN UNCHANGED <<procs, child, pump, sink>>
       ELSE LET k == child[p].key
                announce == l.type = "system" /\ l.sid # Absent
                r == parse_stream_event(l, pump[p].cur, pump[p].acc)
                q == IF announce
                     THEN Emit(sink[p], SessionChan(k), SessionIdUpdated(k, l.sid))
                     ELSE sink[p]
            IN  /\ procs' = IF announce THEN Rekey(procs, k, l.sid) ELSE procs
                /\ child' = IF announce THEN RekeyDrop(child, procs, k, l.sid) ELSE child
                /\ pump' = [pump EXCEPT ![p].cur = r.cur, ![p].acc = r.acc]
                /\ sink' = [sink EXCEPT ![p] = EmitIfSome(q, SessionChan(k), r.ev)]
    /\ UNCHANGED <<streamProcs, streamLock, ret>>
    /\ UNCHANGED <<stderr, files, project>>

\* one iteration of the read loop of resume_session's pump task
resume_read(p, l) ==
    /\ child[p].kind = "resume"
    /\ pump[p].pc = "reading"
    /\ lines' = [lines EXCEPT ![p] = Append(@, l)]
    /\ IF l.raw # "json" THEN UNCHANGED <<pump, sink>>
       ELSE LET r == parse_stream_event(l, pump[p].cur, pump[p].acc)
            IN  /\ pump' = [pump EXCEPT ![p].cur = r.cur, ![p].acc = r.acc]
                /\ sink' = [sink EXCEPT
                                ![p] = EmitIfSome(@, SessionChan(child[p].key), r.ev)]
    /\ UNCHANGED <<procs, streamProcs, streamLock, child, ret>>
    /\ UNCHANGED <<stderr, files, project>>

\* create_read that keeps publishing on the temporary key's channel after the
\* real id was announced
create_read_temp(p, l) ==
    /\ child[p].kind = "create"
    /\ pump[p].pc = "reading"
    /\ lines' = [lines EXCEPT ![p] = Append(@, l)]
    /\ IF l.raw # "json" THEN UNCHANGED <<procs, child, pump, sink>>
       ELSE LET t == child[p].key
                announce == l.type = "system" /\ l.sid # Absent
                real == IF announce THEN l.sid ELSE pump[p].real
                r == parse_stream_event(l, pump[p].cur, pump[p].acc)
                q == IF announce
                     THEN Emit(Emit(sink[p], SessionChan(t), SessionIdUpdated(t, l.sid)),
                               SessionChan(l.sid), SessionIdUpdated(t, l.sid))
                     ELSE sink[p]
            IN  /\ procs' = IF announce THEN Rekey(procs, t, l.sid) ELSE procs
                /\ child' = IF announce THEN RekeyDrop(child, procs, t, l.sid) ELSE child
                /\ pump' = [pump EXCEPT ![p].cur = r.cur, ![p].acc = r.acc,
                                        ![p].real = real]
                /\ sink' = [sink EXCEPT ![p] = EmitIfSome(q, SessionChan(t), r.ev)]
    /\ UNCHANGED <<streamProcs, streamLock, ret>>
    /\ UNCHANGED <<stderr, files, project>>

\* one iteration of the read loop of create_session's pump task
create_read(p, l) ==
    /\ child[p].kind = "create"
    /\ pump[p].pc = "reading"
    /\ lines' = [lines EXCEPT ![p] = Append(@, l)]
    /\ IF l.raw # "json" THEN UNCHANGED <<procs, child, pump, sink>>
       ELSE LET t == child[p].key
                announce == l.type = "system" /\ l.sid # Absent
                real == IF announce THEN l.sid ELSE pump[p].real
                active == IF real # Absent THEN real ELSE t
                r == parse_stream_event(l, pump[p].cur, pump[p].acc)
                q == IF announce
                     THEN Emit(Emit(sink[p], SessionChan(t), SessionIdUpdated(t, l.sid)),
                               SessionChan(l.sid), SessionIdUpdated(t, l.sid))
                     ELSE sink[p]
            IN  /\ procs' = IF announce THEN Rekey(procs, t, l.sid) ELSE procs
                /\ child' = IF announce THEN RekeyDrop(child, procs, t, l.sid) ELSE child
                /\ pump' = [pump EXCEPT ![p].cur = r.cur, ![p].acc = r.acc,
                                        ![p].real = real]
                /\ sink' = [sink EXCEPT ![p] = EmitIfSome(q, SessionChan(active), r.ev)]
    /\ UNCHANGED <<streamProcs, streamLock, ret>>
    /\ UNCHANGED <<stderr, files, project>>

\* chat_read that gives up the stream at a line serde_json rejects
chat_read_abort(p, l, emitOk) ==
    /\ child[p].kind = "chat"
    /\ pump[p].pc = "reading"
    /\ lines' = [lines EXCEPT ![p] = Append(@, l)]
    /\ IF l.raw = "blank" THEN UNCHANGED <<pump, sink, ret>>
       ELSE IF l.raw = "garbage" THEN
           /\ pump' = [pump EXCEPT ![p].pc = "failed", ![p].end = "emit_error"]
           /\ ret' = Err("Failed to parse JSON line")
           /\ UNCHANGED sink
       ELSE LET r == parse_claude_message(l, pump[p].cur, pump[p].acc)
            IN  IF r.ev = NoEvent \/ emitOk THEN
                    /\ pump' = [pump EXCEPT ![p].cur = r.cur, ![p].acc = r.acc]
                    /\ sink' = [sink EXCEPT
                                    ![p] = EmitIfSome(@, ChatChan(child[p].key), r.ev)]
                    /\ UNCHANGED ret
                ELSE
                    /\ pump' = [pump EXCEPT ![p].cur = r.cur, ![p].acc = r.acc,
                                            ![p].pc = "failed", ![p].end = "emit_error"]
                    /\ ret' = Err("Failed to emit event")
                    /\ UNCHANGED sink
    /\ UNCHANGED <<procs, streamProcs, streamLock, child>>
    /\ UNCHANGED <<stderr, files, project>>

\* one iteration of the read loop of spawn_claude_stream; a failed app.emit makes
\* the function return the error at once
chat_read(p, l, emitOk) ==
    /\ child[p].kind = "chat"
    /\ pump[p].pc = "reading"
    /\ lines' = [lines EXCEPT ![p] = Append(@, l)]
    /\ IF l.raw # "json" THEN UNCHANGED <<pump, sink, ret>>
       ELSE LET r == parse_claude_message(l, pump[p].cur, pump[p].acc)
            IN  IF r.ev = NoEvent \/ emitOk THEN
                    /\ pump' = [pump EXCEPT ![p].cur = r.cur, ![p].acc = r.acc]
                    /\ sink' = [sink EXCEPT
                                    ![p] = EmitIfSome(@, ChatChan(child[p].key), r.ev)]
                    /\ UNCHANGED ret
                ELSE
                    /\ pump' = [pump EXCEPT ![p].cur = r.cur, ![p].acc = r.acc,
                                            ![p].pc = "failed", ![p].end = "emit_error"]
                    /\ ret' = Err("Failed to emit event")
                    /\ UNCHANGED sink
    /\ UNCHANGED <<procs, streamProcs, streamLock, child>>
    /\ UNCHANGED <<stderr, files, project>>

\* the read loop ends: next_line() gave Err while the subprocess still writes
\* (readErr), or Ok(None) once the subprocess is gone and its pipe is drained
LoopEnds(p, readErr) == pump[p].pc = "reading" /\ (readErr <=> child[p].alive)

\* why the read loop ended
EndOf(readErr) == IF readErr THEN "read_error" ELSE "eof"

\* resume_end that lets go of the child it finds but leaves the entry in the map
resume_end_keep(p, readErr) ==
    /\ child[p].kind = "resume"
    /\ LoopEnds(p, readErr)
    /\ child' = DropAt(child, procs, child[p].key)
    /\ pump' = [pump EXCEPT ![p].pc = "done", ![p].end = EndOf(readErr)]
    /\ UNCHANGED <<procs, streamProcs, streamLock, lines, sink, ret>>
    /\ UNCHANGED <<stderr, files, project>>

\* resume_session's pump task after its loop
resume_end(p, readErr) ==
    /\ child[p].kind = "resume"
    /\ LoopEnds(p, readErr)
    /\ procs' = Remove(procs, child[p].key)
    /\ child' = DropAt(child, procs, child[p].key)
    /\ pump' = [pump EXCEPT ![p].pc = "done", ![p].end = EndOf(readErr)]
    /\ UNCHANGED <<streamProcs, streamLock, lines, sink, ret>>
    /\ UNCHANGED <<stderr, files, project>>

\* create_session's pump task after its loop
create_end(p, readErr) ==
    /\ child[p].kind = "create"
    /\ LoopEnds(p, readErr)
    /\ LET final == IF pump[p].real # Absent THEN pump[p].real ELSE child[p].key
       IN  /\ procs' = Remove(procs, final)
           /\ child' = DropAt(child, procs, final)
    /\ pump' = [pump EXCEPT ![p].pc = "done", ![p].end = EndOf(readErr)]
    /\ UNCHANGED <<streamProcs, streamLock, lines, sink, ret>>
    /\ UNCHANGED <<stderr, files, project>>

\* spawn_claude_stream after its loop: the final MessageComplete
chat_flush(p, readErr) ==
    /\ child[p].kind = "chat"
    /\ LoopEnds(p, readErr)
    /\ sink' = [sink EXCEPT
                   ![p] = IF pump[p].cur # "" /\ pump[p].acc # ""
                          THEN Emit(@, ChatChan(child[p].key),
                                    MessageComplete(pump[p].cur, pump[p].acc))
                          ELSE @]
    /\ pump' = [pump EXCEPT ![p].pc = "flushed", ![p].end = EndOf(readErr)]
    /\ UNCHANGED <<procs, streamProcs, streamLock, child, lines, ret>>
    /\ UNCHANGED <<stderr, files, project>>

\* spawn_claude_stream's clean up: remove the entry and, holding the lock, await
\* the exit of the child found there
chat_cleanup(p) ==
    /\ pump[p].pc = "flushed"
    /\ streamLock = 0
    /\ LET k == child[p].key
       IN  IF k \notin DOMAIN streamProcs THEN
               /\ pump' = [pump EXCEPT ![p].pc = "done"]
               /\ ret' = Ok("")
               /\ UNCHANGED <<streamProcs, streamLock, child>>
           ELSE IF child[streamProcs[k]].alive THEN
               /\ streamProcs' = Remove(streamProcs, k)
               /\ streamLock' = p
               /\ pump' = [pump EXCEPT ![p].pc = "waiting", ![p].wait = streamProcs[k]]
               /\ UNCHANGED <<child, ret>>
           ELSE
               /\ streamProcs' = Remove(streamProcs, k)
               /\ child' = Consume(child, streamProcs[k], "wait")
               /\ pump' = [pump EXCEPT ![p].pc = "done"]
               /\ ret' = Ok("")
               /\ UNCHANGED streamLock
    /\ UNCHANGED <<procs, lines, sink>>
    /\ UNCHANGED <<stderr, files, project>>

\* child.wait() returns in the clean up: the lock is released and the function
\* returns Ok
chat_reaped(p) ==
    /\ pump[p].pc = "waiting"
    /\ ~child[pump[p].wait].alive
    /\ child' = Consume(child, pump[p].wait, "wait")
    /\ pump' = [pump EXCEPT ![p].pc = "done", ![p].wait = 0]
    /\ streamLock' = 0
    /\ ret' = Ok("")
    /\ UNCHANGED <<procs, streamProcs, lines, sink>>
    /\ UNCHANGED <<stderr, files, project>>

----------------------------------------------------------------------------
(* Cancel, and the subprocess ending on its own. *)

\* Child::kill on handle h; killOk is what the operating system answers
Kill(c, h, killOk) ==
    [c EXCEPT ![h].fate = Append(@, IF killOk THEN "kill" ELSE "kill_err"),
              ![h].alive = IF killOk THEN FALSE ELSE @]

\* cancel_session that kills the child in place and leaves its entry in the map
cancel_session_keep(k, killOk) ==
    /\ IF k \in DOMAIN procs THEN
           /\ child' = Kill(child, procs[k], killOk)
           /\ ret' = IF killOk THEN Ok("") ELSE Err("Failed to kill process")
           /\ UNCHANGED procs
       ELSE
           /\ ret' = NotRunning
           /\ UNCHANGED <<procs, child>>
    /\ UNCHANGED <<streamProcs, streamLock, pump, lines, sink>>
    /\ UNCHANGED <<stderr, files, project>>

\* sessions/resume.rs cancel_session
cancel_session(k, killOk) ==
    /\ IF k \in DOMAIN procs THEN
           /\ procs' = Remove(procs, k)
           /\ child' = Kill(child, procs[k], killOk)
           /\ ret' = IF killOk THEN Ok("") ELSE Err("Failed to kill process")
       ELSE
           /\ ret' = NotRunning
           /\ UNCHANGED <<procs, child>>
    /\ UNCHANGED <<streamProcs, streamLock, pump, lines, sink>>
    /\ UNCHANGED <<stderr, files, project>>

\* chat/claude_cli.rs cancel_stream
cancel_stream(k, killOk) ==
    /\ streamLock = 0
    /\ IF k \in DOMAIN streamProcs THEN
           /\ streamProcs' = Remove(streamProcs, k)
           /\ child' = Kill(child, streamProcs[k], killOk)
           /\ ret' = IF killOk THEN Ok("") ELSE Err("Failed to kill process")
       ELSE
           /\ ret' = Ok("")
           /\ UNCHANGED <<streamProcs, child>>
    /\ UNCHANGED <<procs, streamLock, pump, lines, sink>>
    /\ UNCHANGED <<stderr, files, project>>

\* the agent process exits on its own; its end of the stdout pipe closes
child_exit(p) ==
    /\ child[p].alive
    /\ child' = [child EXCEPT ![p].alive = FALSE]
    /\ UNCHANGED <<procs, streamProcs, streamLock, pump, lines, sink, ret>>
    /\ UNCHANGED <<stderr, files, project>>

----------------------------------------------------------------------------
(* Standard error of the subprocesses. *)

\* resume_session and create_session spawn a task that reads the stderr pipe to its
\* end, after the stdout handle was taken; spawn_claude_stream takes the handle into
\* a local that nothing reads
StderrTask(p) == child[p].kind \in {"resume", "create"} /\ pump[p].pc # "idle"

\* the subprocess writes a line to its stderr pipe; with MaxStderr lines written the
\* model stops it
stderr_write(p) ==
    /\ child[p].alive
    /\ stderr[p].pipe + stderr[p].logged < MaxStderr
    /\ stderr' = [stderr EXCEPT ![p].pipe = @ + 1]
    /\ UNCHANGED <<procs, streamProcs, streamLock, child, pump, lines, sink, ret>>
    /\ UNCHANGED <<files, project>>

\* the stderr task of resume_session reads a line and prints it with eprintln!
resume_stderr(p) ==
    /\ child[p].kind = "resume"
    /\ StderrTask(p)
    /\ stderr[p].pipe > 0
    /\ stderr' = [stderr EXCEPT ![p].pipe = @ - 1, ![p].logged = @ + 1]
    /\ UNCHANGED <<procs, streamProcs, streamLock, child, pump, lines, sink, ret>>
    /\ UNCHANGED <<files, project>>

\* the stderr task of create_session reads a line and prints it with eprintln!
create_stderr(p) ==
    /\ child[p].kind = "create"
    /\ StderrTask(p)
    /\ stderr[p].pipe > 0
    /\ stderr' = [stderr EXCEPT ![p].pipe = @ - 1, ![p].logged = @ + 1]
    /\ UNCHANGED <<procs, streamProcs, streamLock, child, pump, lines, sink, ret>>
    /\ UNCHANGED <<files, project>>

----------------------------------------------------------------------------
(* Chat session storage (chat/storage.rs) and its JSON (chat/session.rs). *)

None == [some |-> FALSE]
Some(v) == [some |-> TRUE, val |-> v]

\* a serde_json::Value is modelled by its JSON text; Null is the JSON null
Value(text) == [json |-> text]
Null == Value("null")
\* a String in a JSON document, and the String read back from it
Str(string) == [str |-> string]
StrOf(j) == j.str

\* session ids: two UUIDs, one id with path traversal characters, one other string
UuidIds ==
    {"00000000-0000-0000-0000-000000000000", "11111111-1111-4111-8111-111111111111"}
TraversalIds == {"../11111111-1111-4111-8111-111111111111"}
NonUuidIds == {"not-a-uuid"}
StorageIds == UuidIds \cup TraversalIds \cup NonUuidIds

\* chat/storage.rs validate_session_id: the error, "" if the id passes
validate_session_id(session_id) ==
    IF session_id \in TraversalIds
    THEN "Invalid session ID: contains path traversal characters"
    ELSE IF session_id \notin UuidIds THEN "Invalid session ID: must be a valid UUID"
    ELSE ""

\* chat/session.rs ChatSession and ChatMessage values
ChatSession(id, title, count) ==
    [id |-> id, project_path |-> "/test/project", title |-> title,
     created_at |-> 1, updated_at |-> 2, message_count |-> count]
ChatMessage_new(id, session_id, role, content) ==
    [id |-> id, session_id |-> session_id, role |-> role, content |-> content,
     timestamp |-> 1, tool_use |-> None, metadata |-> None]
ToolUse(tool_name, input, output) ==
    [tool_name |-> tool_name, input |-> input, output |-> output]

\* #[serde(rename_all = "lowercase")] of MessageRole, and its inverse
RoleJson(role) ==
    CASE role = "User" -> "user"
      [] role = "Assistant" -> "assistant"
      [] role = "System" -> "system"
      [] role = "Tool" -> "tool"
RoleOf(text) ==
    CASE text = "user" -> "User"
      [] text = "assistant" -> "Assistant"
      [] text = "system" -> "System"
      [] text = "tool" -> "Tool"

\* a JSON object field written only when the Option holds a value
\* (skip_serializing_if = "Option::is_none")
Optional(key, opt) == IF opt.some THEN key :> opt.val ELSE EmptyMap
\* an Option field read from a JSON object: a missing key and a null are both None
OptionOf(j, key) == IF key \in DOMAIN j /\ j[key] # Null THEN Some(j[key]) ELSE None

\* Serialize of ChatSession, ToolUse and ChatMessage, keys in camelCase
SessionJson(s) ==
    [id |-> s.id, projectPath |-> s.project_path, title |-> s.title,
     createdAt |-> s.created_at, updatedAt |-> s.updated_at,
     messageCount |-> s.message_count]
ToolUseJson(t) ==
    [toolName |-> t.tool_name, input |-> t.input]
        @@ Optional("output", IF t.output.some THEN Some(Str(t.output.val)) ELSE None)
MessageJson(m) ==
    [id |-> m.id, sessionId |-> m.session_id, role |-> RoleJson(m.role),
     content |-> m.content, timestamp |-> m.timestamp]
        @@ Optional("toolUse",
                    IF m.tool_use.some THEN Some(ToolUseJson(m.tool_use.val)) ELSE None)
        @@ Optional("metadata", m.metadata)

\* Deserialize of ChatSession, ToolUse and ChatMessage
SessionOf(j) ==
    [id |-> j.id, project_path |-> j.projectPath, title |-> j.title,
     created_at |-> j.createdAt, updated_at |-> j.updatedAt,
     message_count |-> j.messageCount]
ToolUseOf(j) ==
    [tool_name |-> j.toolName, input |-> j.input,
     output |-> LET output == OptionOf(j, "output")
                IN  IF output.some THEN Some(StrOf(output.val)) ELSE None]
MessageOf(j) ==
    [id |-> j.id, session_id |-> j.sessionId, role |-> RoleOf(j.role),
     content |-> j.content, timestamp |-> j.timestamp,
     tool_use |-> LET toolUse == OptionOf(j, "toolUse")
                  IN  IF toolUse.some THEN Some(ToolUseOf(toolUse.val)) ELSE None,
     metadata |-> OptionOf(j, "metadata")]

\* serde_json::to_string_pretty of a SessionStorage: the content of a session file
to_string_pretty(session, messages) ==
    [text |-> "json",
     session |-> SessionJson(session),
     messages |-> [i \in 1..Len(messages) |-> MessageJson(messages[i])]]
\* what fs::write leaves when it fails after it truncated the file
Truncated == [text |-> "truncated"]

\* the value load_session returns for a session file it could parse
Loaded(session, messages) == [ok |-> TRUE, session |-> session, messages |-> messages]
\* serde_json::from_str::<SessionStorage> of a file content
from_str(content) ==
    IF content.text # "json" THEN Err("Failed to parse session file")
    ELSE Loaded(SessionOf(content.session),
                [i \in 1..Len(content.messages) |-> MessageOf(content.messages[i])])

\* save_session that writes the messages after those the file already holds
save_session_append(session, messages, write) ==
    /\ LET invalid == validate_session_id(session.id)
           old == IF session.id \in DOMAIN files /\ files[session.id].text = "json"
                  THEN from_str(files[session.id]).messages ELSE <<>>
       IN  IF invalid # "" THEN
               /\ ret' = Err(invalid)
               /\ UNCHANGED files
           ELSE IF write = "ok" THEN
               /\ files' = Insert(files, session.id,
                                  to_string_pretty(session, old \o messages))
               /\ ret' = Ok("")
           ELSE IF write = "truncated" THEN
               /\ files' = Insert(files, session.id, Truncated)
               /\ ret' = Err("Failed to write session file")
           ELSE
               /\ ret' = Err("Failed to write session file")
               /\ UNCHANGED files
    /\ UNCHANGED <<procs, streamProcs, streamLock, child, pump, lines, sink>>
    /\ UNCHANGED <<stderr, project>>

\* chat/storage.rs save_session; write says how fs::write went
save_session(session, messages, write) ==
    /\ LET invalid == validate_session_id(session.id)
       IN  IF invalid # "" THEN
               /\ ret' = Err(invalid)
               /\ UNCHANGED files
           ELSE IF write = "ok" THEN
               /\ files' = Insert(files, session.id, to_string_pretty(session, messages))
               /\ ret' = Ok("")
           ELSE IF write = "truncated" THEN
               /\ files' = Insert(files, session.id, Truncated)
               /\ ret' = Err("Failed to write session file")
           ELSE
               /\ ret' = Err("Failed to write session file")
               /\ UNCHANGED files
    /\ UNCHANGED <<procs, streamProcs, streamLock, child, pump, lines, sink>>
    /\ UNCHANGED <<stderr, project>>

\* what load_session returns for session_id when the files are fs
LoadOf(fs, session_id, readOk) ==
    LET invalid == validate_session_id(session_id)
    IN  IF invalid # "" THEN Err(invalid)
        ELSE IF session_id \notin DOMAIN fs THEN Err("Session not found: " \o session_id)
        ELSE IF ~readOk THEN Err("Failed to read session file")
        ELSE from_str(fs[session_id])

\* chat/storage.rs load_session; readOk says how fs::read_to_string went
load_session(session_id, readOk) ==
    /\ ret' = LoadOf(files, session_id, readOk)
    /\ UNCHANGED <<procs, streamProcs, streamLock, child, pump, lines, sink>>
    /\ UNCHANGED <<stderr, files, project>>

\* delete_session that returns Ok and leaves the file where it is
delete_session_keep(session_id, removeOk) ==
    /\ LET invalid == validate_session_id(session_id)
       IN  IF invalid # "" THEN ret' = Err(invalid)
           ELSE IF session_id \in DOMAIN files /\ ~removeOk
           THEN ret' = Err("Failed to delete session file")
           ELSE ret' = Ok("")
    /\ UNCHANGED <<procs, streamProcs, streamLock, child, pump, lines, sink>>
    /\ UNCHANGED <<stderr, files, project>>

\* chat/storage.rs delete_session; removeOk says how fs::remove_file went
delete_session(session_id, removeOk) ==
    /\ LET invalid == validate_session_id(session_id)
       IN  IF invalid # "" THEN
               /\ ret' = Err(invalid)
               /\ UNCHANGED files
           ELSE IF session_id \in DOMAIN files /\ ~removeOk THEN
               /\ ret' = Err("Failed to delete session file")
               /\ UNCHANGED files
           ELSE
               /\ files' = Remove(files, session_id)
               /\ ret' = Ok("")
    /\ UNCHANGED <<procs, streamProcs, streamLock, child, pump, lines, sink>>
    /\ UNCHANGED <<stderr, project>>

----------------------------------------------------------------------------
(* Project directories (sessions/discovery.rs). A path is the sequence of its  *)
(* characters.                                                                 *)

\* path.replace('/', "-")
encode_project_path(path) ==
    [i \in 1..Len(path) |-> IF path[i] = "/" THEN "-" ELSE path[i]]

\* encoded[1..].replace('-', "/") after a leading '-', the name itself otherwise
decode_project_path(encoded) ==
    IF Len(encoded) > 0 /\ encoded[1] = "-"
    THEN LET rest == Tail(encoded)
         IN  [i \in 1..Len(rest) |-> IF rest[i] = "-" THEN "/" ELSE rest[i]]
    ELSE encoded

\* sessions/discovery.rs get_project_sessions_dir: the directory of a project
get_project_sessions_dir(project_path) ==
    /\ project' = [path |-> project_path, dir |-> encode_project_path(project_path),
                   decoded |-> None]
    /\ UNCHANGED <<procs, streamProcs, streamLock, child, pump, lines, sink, ret>>
    /\ UNCHANGED <<stderr, files>>

\* the name of the project's directory is decoded back to a path
decode_project_dir ==
    /\ project.dir # <<>>
    /\ project' = [project EXCEPT !.decoded = Some(decode_project_path(project.dir))]
    /\ UNCHANGED <<procs, streamProcs, streamLock, child, pump, lines, sink, ret>>
    /\ UNCHANGED <<stderr, files>>

----------------------------------------------------------------------------
(* Specifications. *)

AllKeys == SessionIds \cup {TempKey(p) : p \in 1..MaxProcs}

\* the commands that start a stream, for subprocess ids P, session ids K, and the
\* host answering from Clis (is the agent installed), Ps (the project path) and
\* Ss (the spawn)
Starts(P, K, Clis, Ps, Ss) ==
    \/ \E p \in P, sid \in K, cli \in Clis, path \in Ps, spawn \in Ss :
           resume_session(p, sid, cli, path, spawn)
    \/ \E p \in P, cli \in Clis, path \in Ps, spawn \in Ss :
           create_session(p, cli, path, spawn)
    \/ \E p \in P, sid \in K, path \in Ps, spawn \in Ss :
           spawn_claude_stream(p, sid, path, spawn)

\* the pumps of the streams P, reading lines of L while fewer than n were read
Pumps(P, L, n) ==
    \/ \E p \in P, l \in L : TotalReads(P) < n /\ resume_read(p, l)
    \/ \E p \in P, l \in L : TotalReads(P) < n /\ create_read(p, l)
    \/ \E p \in P, l \in L, emitOk \in BOOLEAN :
           TotalReads(P) < n /\ chat_read(p, l, emitOk)
    \/ \E p \in P, readErr \in BOOLEAN : resume_end(p, readErr)
    \/ \E p \in P, readErr \in BOOLEAN : create_end(p, readErr)
    \/ \E p \in P, readErr \in BOOLEAN : chat_flush(p, readErr)
    \/ \E p \in P : chat_cleanup(p)
    \/ \E p \in P : chat_reaped(p)
    \/ \E p \in P : child_exit(p)

Cancels ==
    \/ \E k \in AllKeys, killOk \in BOOLEAN : cancel_session(k, killOk)
    \/ \E k \in AllKeys, killOk \in BOOLEAN : cancel_stream(k, killOk)

\* the registries under concurrent streams and cancels, on a host where every
\* stream starts
Next ==
    \/ Starts(1..MaxProcs, {"X"}, {TRUE}, {"abs"}, {"ok"})
    \/ Pumps(1..MaxProcs, RegLines, MaxReads)
    \/ Cancels
Spec == Init /\ [][Next]_vars

\* one stream of any of the three kinds, followed line by line until its
\* subprocess ends on its own
NextPump ==
    \/ Starts({1}, {"X"}, {TRUE}, {"abs"}, {"ok"})
    \/ Pumps({1}, PumpLines, MaxLines)
SpecPump == Init /\ [][NextPump]_vars

\* lines with a required field missing, or of a type no parser arm takes
NoTypeLine == Json(Absent)
UnknownTypeLine == Json("user")
NoEventTypeLine == Json("stream_event")
MalformedLines ==
    {NoTypeLine, UnknownTypeLine, NoEventTypeLine, WStart(Absent), WDelta(Absent),
     Assistant(Absent, <<"a">>), Assistant("m1", <<>>), Assistant("m1", <<Absent>>)}

\* the lines of SpecLines: what a pump has to survive (malformed, non-JSON, blank
\* and error lines) among lines of one well-formed message
LineCases ==
    MalformedLines
        \cup {GarbageLine, BlankLine, ErrorLine("boom"), ErrorLine(Absent)}
        \cup {WStart("m2"), WDelta("a"), WStop, ResultLine}

\* one stream of any of the three kinds whose subprocess writes lines of LineCases
NextLines ==
    \/ Starts({1}, {"X"}, {TRUE}, {"abs"}, {"ok"})
    \/ Pumps({1}, LineCases, MaxCases)
SpecLines == Init /\ [][NextLines]_vars

\* the commands that start a stream on every host: the agent installed or not,
\* every kind of project path, every outcome of the spawn; then the streams that
\* did start, and cancels
NextStart ==
    \/ Starts(1..MaxProcs, {"X"}, BOOLEAN, Paths, Spawns)
    \/ Pumps(1..MaxProcs, {WDelta("a")}, MaxStartReads)
    \/ Cancels
SpecStart == Init /\ [][NextStart]_vars

\* the streams and cancels of SpecStart on a host where every stream starts, under
\* the scheduling the runtime gives: a pump whose subprocess is gone sees the end
\* of its stdout, a pump past its loop goes on to its clean up when the lock is
\* free, and a child.wait() on a subprocess that is gone returns. Nothing makes a
\* subprocess write or exit, and nothing makes a caller cancel.
NextLive ==
    \/ Starts(1..MaxProcs, {"X"}, {TRUE}, {"abs"}, {"ok"})
    \/ Pumps(1..MaxProcs, {WDelta("a")}, MaxStartReads)
    \/ Cancels
Scheduling ==
    /\ WF_vars(\E p \in 1..MaxProcs : resume_end(p, FALSE))
    /\ WF_vars(\E p \in 1..MaxProcs : create_end(p, FALSE))
    /\ WF_vars(\E p \in 1..MaxProcs : chat_flush(p, FALSE))
    /\ WF_vars(\E p \in 1..MaxProcs : chat_cleanup(p))
    /\ WF_vars(\E p \in 1..MaxProcs : chat_reaped(p))
SpecLive == Init /\ [][NextLive]_vars /\ Scheduling

\* the content arrays of the assistant lines of SpecVerbose: one text block, two
\* text blocks, a block without text (tool_use) before two text blocks, and no
\* text block
Contents == {<<"a">>, <<"a", "b">>, <<Absent, "b", "a">>, <<Absent>>}
\* the lines of SpecVerbose: the --verbose schema and one wrapped delta
VerboseLines ==
    {Assistant(m, c) : m \in MsgIds, c \in Contents} \cup {ResultLine, WDelta("a")}
\* one stream of any of the three kinds whose subprocess writes lines of VerboseLines
NextVerbose ==
    \/ Starts({1}, {"X"}, {TRUE}, {"abs"}, {"ok"})
    \/ Pumps({1}, VerboseLines, MaxVerbose)
SpecVerbose == Init /\ [][NextVerbose]_vars

\* one stream of any of the three kinds with its stderr: the subprocess writes to
\* the pipe, the stderr task (where there is one) reads it
Stderrs(P) ==
    \/ \E p \in P : stderr_write(p)
    \/ \E p \in P : resume_stderr(p)
    \/ \E p \in P : create_stderr(p)
NextStderr ==
    \/ Starts({1}, {"X"}, {TRUE}, {"abs"}, {"ok"})
    \/ Pumps({1}, {WDelta("a")}, MaxStartReads)
    \/ Cancels
    \/ Stderrs({1})
SpecStderr == Init /\ [][NextStderr]_vars

\* the sessions and message lists handed to save_session
Titles == {"Test Session", "Renamed"}
ChatSessions == {ChatSession(id, title, 0) : id \in StorageIds, title \in Titles}
Hello(sid) == ChatMessage_new("m1", sid, "User", "Hello")
Reply(sid) == ChatMessage_new("m2", sid, "Assistant", "Hi")
ToolCall(sid) ==
    [ChatMessage_new("m3", sid, "Tool", "") EXCEPT
        !.tool_use = Some(ToolUse("read_file", Value("{\"path\":\"a\"}"), None))]
ToolDone(sid) ==
    [ChatMessage_new("m3", sid, "Tool", "") EXCEPT
        !.tool_use = Some(ToolUse("read_file", Null, Some("ok")))]
MessageLists(sid) ==
    {<<>>, <<Hello(sid)>>, <<Hello(sid), Reply(sid)>>, <<Reply(sid), Hello(sid)>>,
     <<Hello(sid), ToolCall(sid)>>, <<ToolDone(sid)>>}
Writes == {"ok", "truncated", "fail"}

\* the chat storage under any order of saves, loads and deletes
NextStorage ==
    \/ \E s \in ChatSessions, write \in Writes :
           \E ms \in MessageLists(s.id) : save_session(s, ms, write)
    \/ \E id \in StorageIds, readOk \in BOOLEAN : load_session(id, readOk)
    \/ \E id \in StorageIds, removeOk \in BOOLEAN : delete_session(id, removeOk)
SpecStorage == Init /\ [][NextStorage]_vars

\* project paths: the strings of up to MaxPathLen characters over a slash, a hyphen
\* and a letter
PathChars == {"/", "-", "a"}
ProjectPaths == UNION {[1..n -> PathChars] : n \in 1..MaxPathLen}
NextProject ==
    \/ \E path \in ProjectPaths : get_project_sessions_dir(path)
    \/ decode_project_dir
SpecProject == Init /\ [][NextProject]_vars

----------------------------------------------------------------------------
(* Vocabulary of the properties. *)

Procs == 1..MaxProcs

IsStart(l) ==
    l.raw = "json" /\ l.type = "stream_event" /\ l.etype = "message_start"
        /\ l.eid # Absent
IsDelta(l) ==
    l.raw = "json" /\ l.type = "stream_event" /\ l.etype = "content_block_delta"
        /\ l.etext # Absent
IsStop(l) == l.raw = "json" /\ l.type = "stream_event" /\ l.etype = "message_stop"

\* message_start, content_block_delta*, message_stop
IsWrappedMessage(ls) ==
    /\ Len(ls) >= 2
    /\ IsStart(ls[1])
    /\ IsStop(ls[Len(ls)])
    /\ \A i \in 2..(Len(ls) - 1) : IsDelta(ls[i])

IsDeltaEv(e) == e.type = "contentDelta"
IsCompleteEv(e) == e.type = "messageComplete"
IsStartEv(e) == e.type = "messageStart"

\* the delta fields of the ContentDelta events among the first n events of q,
\* concatenated in order
RECURSIVE DeltasOf(_, _)
DeltasOf(q, n) ==
    IF n = 0 THEN ""
    ELSE DeltasOf(q, n - 1) \o (IF IsDeltaEv(q[n].ev) THEN q[n].ev.delta ELSE "")

\* the read loop of p is over and nothing more of the pump will run
Stopped(p) == pump[p].pc \in {"done", "failed"}
\* the read loop of p is over
LoopOver(p) == pump[p].pc \in {"flushed", "waiting", "done", "failed"}

Registered(p) ==
    \/ \E k \in DOMAIN procs : procs[k] = p
    \/ \E k \in DOMAIN streamProcs : streamProcs[k] = p

Kills(c, p) == Cardinality({i \in 1..Len(c[p].fate) : c[p].fate[i] \in {"kill", "kill_err"}})

----------------------------------------------------------------------------
(* C1: when the lines a pump has read are one wrapped message_start, then      *)
(* wrapped content_block_delta lines with text, then one wrapped message_stop, *)
(* and every emit succeeded, the event emitted for the message_stop line is    *)
(* MessageComplete with the message_start id and with the concatenation, in    *)
(* order, of the delta fields of the ContentDelta events emitted before it;    *)
(* those ContentDelta events are the ones of the delta lines, in line order.   *)
C1_WrappedComplete ==
    \A p \in Procs :
        (IsWrappedMessage(lines[p]) /\ pump[p].pc # "failed") =>
            LET n == Len(lines[p])
                m == lines[p][1].eid
            IN  /\ Len(sink[p]) >= n
                /\ sink[p][1].ev = MessageStart(m)
                /\ \A i \in 2..(n - 1) : sink[p][i].ev = ContentDelta(m, lines[p][i].etext)
                /\ sink[p][n].ev = MessageComplete(m, DeltasOf(sink[p], n - 1))

\* a chat stream has read message_start, two different deltas and message_stop
C1_Witness ==
    \E p \in Procs :
        /\ child[p].kind = "chat"
        /\ lines[p] = <<WStart("m1"), WDelta("a"), WDelta("b"), WStop>>
        /\ Len(sink[p]) = 4
        /\ sink[p][4].ev = MessageComplete("m1", "ab")

----------------------------------------------------------------------------
(* C2: in each of the three pumps, the step in which the read loop ends at   *)
(* end-of-file (the subprocess is gone) with a non-empty currentMessageId    *)
(* emits exactly one more event, MessageComplete with currentMessageId and   *)
(* the accumulated content; and once the loop is over the stream emits       *)
(* nothing more.                                                             *)
C2_EofFlush ==
    [][\A p \in Procs :
          /\ ( /\ pump[p].pc = "reading"
               /\ pump'[p].end = "eof"
               /\ pump[p].cur # "" )
             => /\ Len(sink'[p]) = Len(sink[p]) + 1
                /\ sink'[p][Len(sink'[p])].ev = MessageComplete(pump[p].cur, pump[p].acc)
          /\ LoopOver(p) => sink'[p] = sink[p]]_vars

----------------------------------------------------------------------------
(* C3 as claimed: whenever the pump of a stream created under temporary key  *)
(* T processes a system line carrying session_id = X, afterwards the         *)
(* registry does not contain T and maps X to the stream's own subprocess,    *)
(* and SessionIdUpdated{T, X} was emitted on T's channel and on X's channel; *)
(* in every interleaving with Cancel and other streams.  Stated for the      *)
(* first system line of the stream, the case every created stream has.       *)
C3_RekeyAlways ==
    [][\A p \in Procs : \A x \in SessionIds :
          ( /\ child[p].kind = "create"
            /\ pump[p].pc = "reading"
            /\ pump[p].real = Absent
            /\ lines'[p] = Append(lines[p], SystemLine(x)) )
          => LET t == child[p].key
                 u == SessionIdUpdated(t, x)
             IN  /\ t \notin DOMAIN procs'
                 /\ x \in DOMAIN procs'
                 /\ procs'[x] = p
                 /\ sink'[p] = sink[p] \o <<[chan |-> SessionChan(t), ev |-> u],
                                            [chan |-> SessionChan(x), ev |-> u]>>]_vars

(* C3 as amended: when the pump of a stream created under temporary key T    *)
(* processes a system line carrying session_id = X while T is still in the   *)
(* registry, afterwards the registry does not contain T and maps X to the    *)
(* handle that was under T, which is the stream's own subprocess, still      *)
(* running as before (no restart), and every other key other than X keeps    *)
(* its entry; when T is no longer in the registry (a Cancel of T, or an      *)
(* earlier system line, took it) the registry is left unchanged.  In both    *)
(* cases the step emits SessionIdUpdated{T, X} once on T's channel and once  *)
(* on X's channel, and nothing else.                                         *)
C3_RekeyIfPresent ==
    [][\A p \in Procs : \A x \in SessionIds :
          ( /\ child[p].kind = "create"
            /\ pump[p].pc = "reading"
            /\ lines'[p] = Append(lines[p], SystemLine(x)) )
          => LET t == child[p].key
                 u == SessionIdUpdated(t, x)
             IN  /\ IF t \in DOMAIN procs
                    THEN /\ procs[t] = p
                         /\ DOMAIN procs' = (DOMAIN procs \ {t}) \cup {x}
                         /\ procs'[x] = procs[t]
                         /\ \A k \in DOMAIN procs \ {t, x} : procs'[k] = procs[k]
                         /\ child'[p] = child[p]
                    ELSE procs' = procs
                 /\ sink'[p] = sink[p] \o <<[chan |-> SessionChan(t), ev |-> u],
                                            [chan |-> SessionChan(x), ev |-> u]>>]_vars

\* a created stream was re-keyed to X by its first line and is still registered
C3_Witness ==
    \E p \in Procs :
        /\ child[p].kind = "create"
        /\ lines[p] = <<SystemLine("X")>>
        /\ DOMAIN procs = {"X"}
        /\ procs["X"] = p
        /\ child[p].alive
        /\ Len(sink[p]) = 2

----------------------------------------------------------------------------
(* C4: a Cancel on a key that is not in the registry returns the NotRunning  *)
(* error and leaves the registry unchanged, at both cancel entry points      *)
(* (cancel_session on RunningProcesses, cancel_stream on StreamProcesses).   *)
C4_CancelAbsentNotRunning ==
    [][\A k \in AllKeys :
          /\ (k \notin DOMAIN procs /\ \E killOk \in BOOLEAN : cancel_session(k, killOk))
             => (ret' = NotRunning /\ procs' = procs)
          /\ (k \notin DOMAIN streamProcs /\ \E killOk \in BOOLEAN : cancel_stream(k, killOk))
             => (ret' = NotRunning /\ streamProcs' = streamProcs)]_vars

----------------------------------------------------------------------------
(* C5: a Cancel on a key that is in the registry removes that key and issues *)
(* the kill on the subprocess found there, which is dead afterwards when the *)
(* kill call succeeds; and over every sequence of Cancel calls and stream    *)
(* completions no subprocess is issued the kill more than once.              *)
C5_CancelKillsOnce ==
    [][/\ \A k \in AllKeys :
            /\ (k \in DOMAIN procs /\ \E killOk \in BOOLEAN : cancel_session(k, killOk))
               => /\ k \notin DOMAIN procs'
                  /\ Kills(child, procs[k]) = 0
                  /\ Kills(child', procs[k]) = 1
                  /\ ret'.ok => ~child'[procs[k]].alive
            /\ (k \in DOMAIN streamProcs
                    /\ \E killOk \in BOOLEAN : cancel_stream(k, killOk))
               => /\ k \notin DOMAIN streamProcs'
                  /\ Kills(child, streamProcs[k]) = 0
                  /\ Kills(child', streamProcs[k]) = 1
                  /\ ret'.ok => ~child'[streamProcs[k]].alive
       /\ \A p \in Procs : Kills(child', p) <= 1]_vars

\* a resumed stream was cancelled and killed, and the next Cancel of its key
\* found nothing
C5_Witness ==
    \E p \in Procs :
        /\ child[p].kind = "resume"
        /\ child[p].fate = <<"kill">>
        /\ ~child[p].alive
        /\ ~Registered(p)
        /\ ret = NotRunning

----------------------------------------------------------------------------
(* C6: when cancel_session(k) races with the end of k's stream, the Cancel   *)
(* step has one of two outcomes: it finds the entry, whose handle nobody     *)
(* has consumed yet, removes it and issues the kill; or the entry is gone    *)
(* and it returns NotRunning and changes nothing.  No Child handle is ever   *)
(* consumed twice (killed by Cancel and also let go or awaited by a pump),   *)
(* in either registry.                                                       *)
C6_CancelOrPump ==
    [][/\ \A k \in AllKeys :
            (\E killOk \in BOOLEAN : cancel_session(k, killOk))
            => \/ /\ k \in DOMAIN procs
                  /\ child[procs[k]].fate = <<>>
                  /\ k \notin DOMAIN procs'
                  /\ Kills(child', procs[k]) = 1
               \/ /\ k \notin DOMAIN procs
                  /\ ret' = NotRunning
                  /\ procs' = procs
                  /\ child' = child
       /\ \A p \in Procs : Len(child'[p].fate) <= 1]_vars

\* the pump of a resumed stream removed the entry at end-of-file, and the Cancel
\* that came after it returned NotRunning
C6_Witness ==
    \E p \in Procs :
        /\ child[p].kind = "resume"
        /\ pump[p].pc = "done"
        /\ pump[p].end = "eof"
        /\ child[p].fate = <<"drop">>
        /\ ~child[p].alive
        /\ "X" \notin DOMAIN procs
        /\ ret = NotRunning

----------------------------------------------------------------------------
(* C7: for every stream whose subprocess was registered, once its pump has   *)
(* stopped (end-of-file, a read error, or a failed emit) no registry holds   *)
(* an entry for that subprocess.                                             *)
C7_CleanupGuaranteed ==
    \A p \in Procs : Stopped(p) => ~Registered(p)

----------------------------------------------------------------------------
(* C8: a key is in a registry if and only if its subprocess is alive and not *)
(* reaped.  Stated where the claim asks least: a subprocess that is alive    *)
(* and that no Cancel has touched is registered, and once the pump of a      *)
(* stream has stopped a registered subprocess is alive.                      *)
C8_RegisteredIffAlive ==
    \A p \in Procs :
        /\ (child[p].alive /\ Kills(child, p) = 0) => Registered(p)
        /\ (Stopped(p) /\ Registered(p)) => child[p].alive

----------------------------------------------------------------------------
(* C9: within one stream the events of a message id come in the order start, *)
(* ContentDelta*, one MessageComplete: after the MessageComplete of an id    *)
(* no second MessageComplete and no ContentDelta of that id is delivered,    *)
(* and no MessageStart of an id follows a ContentDelta or MessageComplete of *)
(* it.  Stated for the streams whose stdout is exactly one wrapped message   *)
(* (message_start, content_block_delta*, message_stop), then end-of-file.     *)
C9_OneCompletePerMessage ==
    \A p \in Procs :
        (IsWrappedMessage(lines[p]) /\ pump[p].end \in {"", "eof"}) =>
            \A i \in 1..Len(sink[p]) : \A j \in (i + 1)..Len(sink[p]) :
                LET a == sink[p][i].ev
                    b == sink[p][j].ev
                IN  /\ ~( /\ IsCompleteEv(a)
                          /\ IsCompleteEv(b) \/ IsDeltaEv(b)
                          /\ b.messageId = a.messageId )
                    /\ ~( /\ IsCompleteEv(a) \/ IsDeltaEv(a)
                          /\ IsStartEv(b)
                          /\ b.messageId = a.messageId )

----------------------------------------------------------------------------
(* C10: within a stream every ContentDelta and every MessageComplete carries *)
(* a non-empty messageId m and is preceded by exactly one MessageStart       *)
(* carrying m.  Stated for the streams that have read wrapped lines only     *)
(* (a verbose assistant line starts its message without any MessageStart).   *)
C10_StartPrecedes ==
    \A p \in Procs :
        (\A n \in 1..Len(lines[p]) : lines[p][n].type = "stream_event") =>
            \A i \in 1..Len(sink[p]) :
                LET e == sink[p][i].ev
                IN  (IsDeltaEv(e) \/ IsCompleteEv(e)) =>
                        /\ e.messageId # ""
                        /\ Cardinality({j \in 1..(i - 1) :
                                           sink[p][j].ev = MessageStart(e.messageId)}) = 1

----------------------------------------------------------------------------
\* the delta fields of the ContentDelta events with messageId m among the first n
\* events of q, concatenated in order
RECURSIVE DeltasFor(_, _, _)
DeltasFor(q, n, m) ==
    IF n = 0 THEN ""
    ELSE DeltasFor(q, n - 1, m)
             \o (IF IsDeltaEv(q[n].ev) /\ q[n].ev.messageId = m THEN q[n].ev.delta ELSE "")

(* C11: in every stream, for both wire schemas and every sequence of lines,  *)
(* the content of each emitted MessageComplete is the concatenation, in      *)
(* order, of the delta fields of the ContentDelta events emitted before it   *)
(* in that stream with the same messageId.  Stated for the streams of the    *)
(* verbose schema alone: assistant lines, then result.                       *)
C11_CompleteIsConcat ==
    \A p \in Procs :
        (\A n \in 1..Len(lines[p]) : lines[p][n].type \in {"assistant", "result"}) =>
            \A i \in 1..Len(sink[p]) :
                LET e == sink[p][i].ev
                IN  IsCompleteEv(e) => e.content = DeltasFor(sink[p], i - 1, e.messageId)

----------------------------------------------------------------------------
\* pump p reads line l in this step
Reads(p, l) == pump[p].pc = "reading" /\ lines'[p] = Append(lines[p], l)

(* C12: a line that parses as JSON but has no string type, has an unknown    *)
(* type, or has a recognized type with a required field missing (a wrapped   *)
(* event without event.type, message_start without message.id,               *)
(* content_block_delta without delta.text, assistant without message.id or   *)
(* without any text block) yields no event and leaves currentMessageId and   *)
(* accumulatedContent as they were, in each of the three pumps.              *)
C12_MalformedNoEffect ==
    [][\A p \in Procs : \A l \in MalformedLines :
          Reads(p, l) => /\ sink'[p] = sink[p]
                         /\ pump'[p].cur = pump[p].cur
                         /\ pump'[p].acc = pump[p].acc]_vars

----------------------------------------------------------------------------
----------------------------------------------------------------------------
(* C14: the step in which Create starts a stream inserts the subprocess into *)
(* the registry under the temporary key temp-<uuid>, a key that was not in   *)
(* the registry, and returns that key while the pump has read nothing and    *)
(* the stream is not over; and when the pump of a created stream reads its   *)
(* first line the subprocess is registered under the temporary key, unless a *)
(* Cancel of that key has taken it.                                          *)
C14_RegisteredBeforeRead ==
    [][\A p \in Procs :
          LET t == TempKey(p)
          IN  /\ (child[p].kind = "none" /\ child'[p].kind = "create" /\ child'[p].alive)
                 => /\ t \notin DOMAIN procs
                    /\ procs' = Insert(procs, t, p)
                    /\ ret' = Ok(t)
                    /\ lines'[p] = <<>>
                    /\ sink'[p] = <<>>
                    /\ pump'[p].pc = "reading"
              /\ (child'[p].kind = "create" /\ lines'[p] # lines[p])
                 => /\ child[p].kind = "create"
                    /\ (lines[p] = <<>> /\ child[p].fate = <<>>)
                       => (t \in DOMAIN procs /\ procs[t] = p)]_vars

\* Create has just returned the temporary key: the subprocess is registered under
\* it and its pump has read nothing
C14_Witness ==
    \E p \in Procs :
        /\ child[p].kind = "create"
        /\ child[p].alive
        /\ ret = Ok(TempKey(p))
        /\ TempKey(p) \in DOMAIN procs
        /\ procs[TempKey(p)] = p
        /\ lines[p] = <<>>
        /\ pump[p].pc = "reading"

----------------------------------------------------------------------------
\* the events stream p emits in this step
Emitted(p) == SubSeq(sink'[p], Len(sink[p]) + 1, Len(sink'[p]))

(* C15: in a stream started by Create under temporary key T, the events of a *)
(* line read before any system line announced an id are published on T's     *)
(* channel; the system line that announces id X publishes the two            *)
(* SessionIdUpdated{T, X} copies, on T's channel and on X's channel, and     *)
(* nothing else; and the events of a line read after it are published on the *)
(* announced id's channel, none of them on T's channel.                      *)
C15_ChannelFollowsKey ==
    [][\A p \in Procs :
          (child[p].kind = "create" /\ pump[p].pc = "reading" /\ lines'[p] # lines[p])
          => LET t == child[p].key
                 l == lines'[p][Len(lines'[p])]
                 new == Emitted(p)
                 u == SessionIdUpdated(t, l.sid)
             IN  /\ sink[p] = SubSeq(sink'[p], 1, Len(sink[p]))
                 /\ IF l.type = "system" /\ l.sid # Absent
                    THEN new = <<[chan |-> SessionChan(t), ev |-> u],
                                 [chan |-> SessionChan(l.sid), ev |-> u]>>
                    ELSE IF pump[p].real = Absent
                    THEN \A i \in 1..Len(new) : new[i].chan = SessionChan(t)
                    ELSE \A i \in 1..Len(new) :
                             /\ new[i].chan = SessionChan(pump[p].real)
                             /\ new[i].chan # SessionChan(t)]_vars

\* a created stream announced X and then read a delta, which went to X's channel
C15_Witness ==
    \E p \in Procs :
        /\ child[p].kind = "create"
        /\ lines[p] = <<SystemLine("X"), WDelta("a")>>
        /\ Len(sink[p]) = 3
        /\ sink[p][3] = [chan |-> SessionChan("X"), ev |-> ContentDelta("", "a")]

----------------------------------------------------------------------------
(* C16: a stream started by Resume(sessionId) is registered under sessionId  *)
(* by the step that starts it and, as long as it is registered, under no     *)
(* other key; every event it emits is published on sessionId's channel and   *)
(* none is SessionIdUpdated; and the step in which its pump reads a system   *)
(* line, whatever session_id it carries, changes no registry, no subprocess  *)
(* and emits nothing.                                                        *)
C16_ResumeKeepsKey ==
    [][\A p \in Procs :
          /\ (child[p].kind = "none" /\ child'[p].kind = "resume" /\ child'[p].alive)
             => (child'[p].key \in DOMAIN procs' /\ procs'[child'[p].key] = p)
          /\ child'[p].kind = "resume"
             => /\ \A k \in DOMAIN procs' : procs'[k] = p => k = child'[p].key
                /\ \A i \in 1..Len(sink'[p]) :
                       /\ sink'[p][i].chan = SessionChan(child'[p].key)
                       /\ sink'[p][i].ev.type # "sessionIdUpdated"
          /\ \A x \in SessionIds :
                (child[p].kind = "resume" /\ Reads(p, SystemLine(x)))
                => /\ UNCHANGED <<procs, streamProcs, child, sink>>
                   /\ pump' = pump]_vars

\* a stream resumed as X read a system line announcing Y: it is still registered
\* under X, Y is no key, and nothing was emitted
C16_Witness ==
    \E p \in Procs :
        /\ child[p].kind = "resume"
        /\ child[p].key = "X"
        /\ lines[p] = <<SystemLine("Y")>>
        /\ DOMAIN procs = {"X"}
        /\ procs["X"] = p
        /\ sink[p] = <<>>

----------------------------------------------------------------------------
\* what a start command that found no stdout handle on subprocess p leaves
NoStdoutOutcome(p) ==
    /\ child'[p].fate = <<"kill">>
    /\ ~child'[p].alive
    /\ \A q \in Procs \ {p} : child'[q] = child[q]
    /\ ret' = Err("Failed to get stdout")
    /\ pump'[p] = NoPump
    /\ UNCHANGED <<procs, streamProcs, pump, lines, sink>>

(* C17: when Create, Resume or the chat spawn has spawned a subprocess whose *)
(* stdout handle cannot be obtained, the step issues the kill on that        *)
(* subprocess, which is dead afterwards, inserts nothing into either         *)
(* registry, starts no pump, emits no event and returns an error; and a      *)
(* subprocess whose pump was never started is in no registry and has read    *)
(* and emitted nothing.                                                      *)
C17_NoStdoutKilled ==
    [][\A p \in Procs :
          /\ \A sid \in SessionIds, cli \in BOOLEAN, path \in Paths :
                /\ (SessionPrecheck(cli, path) = ""
                        /\ resume_session(p, sid, cli, path, "no_stdout"))
                   => NoStdoutOutcome(p)
                /\ (SessionPrecheck(cli, path) = ""
                        /\ create_session(p, cli, path, "no_stdout"))
                   => NoStdoutOutcome(p)
                /\ (validate_project_path(path) = ""
                        /\ spawn_claude_stream(p, sid, path, "no_stdout"))
                   => NoStdoutOutcome(p)
          /\ pump'[p].pc = "idle"
             => /\ lines'[p] = <<>>
                /\ sink'[p] = <<>>
                /\ \A k \in DOMAIN procs' : procs'[k] # p
                /\ \A k \in DOMAIN streamProcs' : streamProcs'[k] # p]_vars

\* the chat spawn found no stdout handle: the subprocess was killed and is in no
\* registry, no pump runs for it, and the call returned the error
C17_Witness ==
    \E p \in Procs :
        /\ child[p] = [kind |-> "chat", key |-> "X", alive |-> FALSE, fate |-> <<"kill">>]
        /\ ret = Err("Failed to get stdout")
        /\ pump[p] = NoPump
        /\ ~Registered(p)
        /\ sink[p] = <<>>

----------------------------------------------------------------------------
\* the errors of the InvalidPath kind
InvalidPath ==
    {Err("Project path must be absolute"), Err("Project path does not exist"),
     Err("Failed to canonicalize path")}

\* a start command rejected the project path: nothing was spawned or registered
PathRejected ==
    /\ ret' \in InvalidPath
    /\ UNCHANGED <<procs, streamProcs, child, pump, lines, sink>>

(* C18: on a host where the agent is installed, Create and Resume (and the   *)
(* chat spawn) return an InvalidPath error, with no subprocess spawned and   *)
(* the registries unchanged, whenever projectPath is relative (also when it  *)
(* exists), does not exist, or cannot be canonicalized; whatever the spawn   *)
(* would have answered.                                                      *)
C18_InvalidPathRejected ==
    [][\A p \in Procs, sid \in SessionIds, spawn \in Spawns :
          \A path \in Paths \ {"abs"} :
              /\ resume_session(p, sid, TRUE, path, spawn) => PathRejected
              /\ create_session(p, TRUE, path, spawn) => PathRejected
              /\ spawn_claude_stream(p, sid, path, spawn) => PathRejected]_vars

----------------------------------------------------------------------------
CliNotInstalled == Err("Claude CLI is not installed. Please install it first.")

\* a start command failed fast on the missing agent: nothing was spawned, registered
\* or emitted
FailedFast ==
    /\ ret' = CliNotInstalled
    /\ UNCHANGED <<procs, streamProcs, child, pump, lines, sink>>

(* C19: on a host where the agent executable is not installed, every command *)
(* that starts a stream returns CliNotInstalled with the registries          *)
(* unchanged, no subprocess and no event: Create and Resume whatever the     *)
(* project path is, and the chat spawn for a valid project path.  On such a  *)
(* host a spawn of the agent that is attempted can only fail.                *)
C19_CliCheckedFirst ==
    [][\A p \in Procs, sid \in SessionIds :
          /\ \A path \in Paths :
                /\ resume_session(p, sid, FALSE, path, "fail") => FailedFast
                /\ create_session(p, FALSE, path, "fail") => FailedFast
          /\ spawn_claude_stream(p, sid, "abs", "fail") => FailedFast]_vars

----------------------------------------------------------------------------
\* the error text the Error event of a verbose error line carries
ErrorText(l) == IF l.err # Absent THEN l.err ELSE "Unknown error"

(* C20: in each of the three pumps, the step that reads a verbose error line *)
(* emits one Error event carrying the line's error string (a generic text if *)
(* it has none), leaves the pump reading with its ParseState as it was, and  *)
(* leaves the registries and the subprocesses unchanged: the line does not   *)
(* end the stream.                                                           *)
C20_ErrorSurfaced ==
    [][\A p \in Procs : \A l \in {ErrorLine("boom"), ErrorLine(Absent)} :
          Reads(p, l) =>
              /\ Len(Emitted(p)) = 1
              /\ Emitted(p)[1].ev = ErrorEvent(ErrorText(l))
              /\ pump'[p] = pump[p]
              /\ UNCHANGED <<procs, streamProcs, child>>]_vars

----------------------------------------------------------------------------
(* C21: the step in which a command that starts a stream (session create,    *)
(* session resume, chat send-message) registers its subprocess is the step   *)
(* in which it returns Ok to its caller (the temporary key for Create): the  *)
(* command does not stay pending while the pump reads stdout.                *)
C21_StartReturnsAtOnce ==
    [][\A p \in Procs :
          (child[p].kind = "none" /\ child'[p].alive)
          => ret' = Ok(IF child'[p].kind = "create" THEN TempKey(p) ELSE "")]_vars

----------------------------------------------------------------------------
(* The lifecycle of the session of subprocess p, read off the state. *)

\* the start failed after the spawn (no stdout handle), or the command that drives
\* the stream returned an error
Failed(c, u, p) == (c[p].kind # "none" /\ u[p].pc = "idle") \/ u[p].pc = "failed"
\* a Cancel took the handle and issued the kill
Cancelled(c, u, p) == u[p].pc # "idle" /\ Kills(c, p) > 0
\* the pump ran to the end of stdout and did its clean up
Completed(c, u, p) == u[p].pc = "done"
\* the subprocess is registered and its pump runs
Streaming(c, u, p) ==
    /\ c[p].kind # "none"
    /\ ~Failed(c, u, p) /\ ~Cancelled(c, u, p) /\ ~Completed(c, u, p)
Spawning(c, u, p) == c[p].kind = "none"

(* C23: the lifecycle of a session takes only the transitions Spawning to    *)
(* Streaming, Streaming to Completed, Spawning or Streaming to Cancelled and *)
(* Spawning to Failed: a session becomes Failed only from Spawning, becomes  *)
(* Completed only from Streaming, becomes Cancelled only from Spawning or    *)
(* Streaming, and becomes Streaming only from Spawning.                      *)
C23_LifecycleTransitions ==
    [][\A p \in Procs :
          /\ (Failed(child', pump', p) /\ ~Failed(child, pump, p))
             => Spawning(child, pump, p)
          /\ (Completed(child', pump', p) /\ ~Completed(child, pump, p))
             => Streaming(child, pump, p)
          /\ (Cancelled(child', pump', p) /\ ~Cancelled(child, pump, p))
             => (Spawning(child, pump, p) \/ Streaming(child, pump, p))
          /\ (Streaming(child', pump', p) /\ ~Streaming(child, pump, p))
             => Spawning(child, pump, p)]_vars

----------------------------------------------------------------------------
\* a Cancel took the handle of p and its kill succeeded
Killed(p) ==
    pump[p].pc # "idle" /\ \E i \in 1..Len(child[p].fate) : child[p].fate[i] = "kill"

(* C24: once a Cancel has succeeded on a stream, no further event of that    *)
(* stream is delivered to the sink (no event of a line read afterwards and   *)
(* no final MessageComplete), and no later step of its pump changes a        *)
(* registry.                                                                 *)
C24_SilentAfterCancel ==
    [][\A p \in Procs :
          Killed(p) => /\ sink'[p] = sink[p]
                       /\ pump'[p] # pump[p]
                          => (procs' = procs /\ streamProcs' = streamProcs)]_vars

----------------------------------------------------------------------------
\* the keys of the session registry m that hold subprocess p
KeysOf(m, p) == {k \in DOMAIN m : m[k] = p}

(* C25: the re-key of a created stream is one registry operation: in no      *)
(* state is the stream's handle under two keys, and as long as no Cancel,    *)
(* insert or removal has taken it and its pump reads, it is under exactly    *)
(* one key (never under neither); the step that processes a system line      *)
(* announcing X moves the handle from the temporary key to X when the        *)
(* temporary key is present and leaves the registry unchanged when it is     *)
(* absent.                                                                   *)
C25_RekeyAtomic ==
    [][\A p \in Procs :
          child'[p].kind = "create" =>
              /\ Cardinality(KeysOf(procs', p)) <= 1
              /\ (child'[p].fate = <<>> /\ pump'[p].pc = "reading")
                 => Cardinality(KeysOf(procs', p)) = 1
              /\ \A x \in SessionIds :
                    (child[p].kind = "create" /\ Reads(p, SystemLine(x)))
                    => IF child[p].key \in DOMAIN procs
                       THEN KeysOf(procs', procs[child[p].key]) = {x}
                       ELSE procs' = procs]_vars

\* a created stream read the system line announcing X after a Cancel had taken its
\* temporary key: the registry is empty as before
C25_Witness ==
    \E p \in Procs :
        /\ child[p].kind = "create"
        /\ child[p].fate = <<"kill">>
        /\ lines[p] = <<SystemLine("X")>>
        /\ pump[p].real = "X"
        /\ DOMAIN procs = {}

----------------------------------------------------------------------------
\* the last line stream p has read is a verbose result line
AfterResult(p) == Len(lines[p]) > 0 /\ lines[p][Len(lines[p])] = ResultLine

(* C29: in the pumps of Create and Resume, the step that reads a verbose     *)
(* result line with a non-empty currentMessageId emits one MessageComplete   *)
(* with that id and the accumulated content and clears both ParseState       *)
(* fields; with an empty currentMessageId it emits nothing and changes       *)
(* nothing; and right after a result line, a second result line and the end  *)
(* of the stream emit nothing.                                               *)
C29_ResultFinalizes ==
    [][\A p \in Procs :
          child[p].kind \in {"resume", "create"} =>
              /\ Reads(p, ResultLine)
                 => IF pump[p].cur # ""
                    THEN /\ Emitted(p) = <<[chan |-> SessionChan(child[p].key),
                                            ev |-> MessageComplete(pump[p].cur, pump[p].acc)]>>
                         /\ pump'[p] = [pump[p] EXCEPT !.cur = "", !.acc = ""]
                    ELSE /\ Emitted(p) = <<>>
                         /\ pump'[p] = pump[p]
              /\ (AfterResult(p) /\ (Reads(p, ResultLine) \/ pump'[p].pc = "done"))
                 => sink'[p] = sink[p]]_vars

\* a resumed stream read an assistant line and two result lines and emitted one
\* MessageComplete
C29_Witness ==
    \E p \in Procs :
        /\ child[p].kind = "resume"
        /\ lines[p] = <<Assistant("m1", <<"a">>), ResultLine, ResultLine>>
        /\ sink[p] = <<[chan |-> SessionChan("X"), ev |-> ContentDelta("m1", "a")],
                       [chan |-> SessionChan("X"), ev |-> MessageComplete("m1", "a")]>>
        /\ pump[p].cur = ""

----------------------------------------------------------------------------
\* index of the last wrapped message_start among the first n lines of ls, 0 if none
RECURSIVE LastStart(_, _)
LastStart(ls, n) ==
    IF n = 0 THEN 0 ELSE IF IsStart(ls[n]) THEN n ELSE LastStart(ls, n - 1)

\* the texts of lines i..n of ls, all wrapped deltas, concatenated in order
RECURSIVE DeltaText(_, _, _)
DeltaText(ls, i, n) ==
    IF i > n THEN "" ELSE ls[i].etext \o DeltaText(ls, i + 1, n)

(* C30: in each of the three pumps, the step that reads a wrapped            *)
(* message_start line carrying id m sets currentMessageId to m and           *)
(* accumulatedContent to empty, whatever they held, and emits MessageStart   *)
(* {m}; and when the lines read since the last message_start are wrapped     *)
(* deltas, the accumulated content, every ContentDelta of those lines and    *)
(* the MessageComplete of a message_stop read next carry m and the text of   *)
(* those deltas only: nothing accumulated before the message_start.          *)
C30_StartResets ==
    [][\A p \in Procs :
          /\ \A m \in MsgIds :
                Reads(p, WStart(m))
                => /\ pump'[p].cur = m
                   /\ pump'[p].acc = ""
                   /\ pump'[p].pc # "failed" => /\ Len(Emitted(p)) = 1
                                                /\ Emitted(p)[1].ev = MessageStart(m)
          /\ LET n == Len(lines[p])
                 i == LastStart(lines[p], n)
             IN  (i > 0 /\ \A k \in (i + 1)..n : IsDelta(lines[p][k]))
                 => /\ pump[p].cur = lines[p][i].eid
                    /\ pump[p].acc = DeltaText(lines[p], i + 1, n)
                    /\ (Reads(p, WStop) /\ pump'[p].pc # "failed")
                       => Emitted(p)[1].ev
                              = MessageComplete(lines[p][i].eid,
                                                DeltaText(lines[p], i + 1, n))]_vars

\* a chat stream read a delta, then message_start m1, a delta and message_stop: the
\* MessageComplete of m1 holds the second delta only
C30_Witness ==
    \E p \in Procs :
        /\ child[p].kind = "chat"
        /\ lines[p] = <<WDelta("a"), WStart("m1"), WDelta("b"), WStop>>
        /\ Len(sink[p]) = 4
        /\ sink[p][4].ev = MessageComplete("m1", "b")

----------------------------------------------------------------------------
\* a step in which a line of subprocess p's stderr was read and logged
StderrLogged(p) == stderr'[p].logged > stderr[p].logged

(* C22: every spawned subprocess whose stdout pump is reading has a stderr   *)
(* reader running beside the pump, in create_session, resume_session and the *)
(* chat spawn alike; and a step that reads a stderr line changes neither the *)
(* event sink nor the pump's parse state nor the stdout lines.               *)
C22_StderrDrained ==
    [][\A p \in Procs :
          /\ pump'[p].pc = "reading" => StderrTask(p)'
          /\ StderrLogged(p) => /\ sink' = sink
                                /\ pump' = pump
                                /\ lines' = lines]_vars

----------------------------------------------------------------------------
(* C26: a save_session(s, ms) that returns Ok leaves the storage such that   *)
(* load_session(s.id) returns exactly the session fields of s and the        *)
(* messages ms in their order, for every message list, the empty one         *)
(* included, and whatever the file of that id held before; and a load that   *)
(* returns Ok changes no file and returns the session and the messages that  *)
(* serialize to the content of the file.                                     *)
C26_SaveLoadRoundTrip ==
    [][/\ \A s \in ChatSessions : \A ms \in MessageLists(s.id) :
              (save_session(s, ms, "ok") /\ ret'.ok)
              => LoadOf(files', s.id, TRUE) = Loaded(s, ms)
       /\ \A id \in StorageIds :
              (load_session(id, TRUE) /\ ret'.ok)
              => /\ files' = files
                 /\ to_string_pretty(ret'.session, ret'.messages) = files[id]]_vars

\* a load returned a renamed session with a user message and a tool message, read
\* from the file a save wrote
C26_Witness ==
    LET id == "11111111-1111-4111-8111-111111111111"
        s == ChatSession(id, "Renamed", 0)
        ms == <<Hello(id), ToolCall(id)>>
    IN  /\ id \in DOMAIN files
        /\ files[id] = to_string_pretty(s, ms)
        /\ ret = Loaded(s, ms)

(* C27: a delete_session(id) that returns Ok leaves the storage such that    *)
(* load_session(id) fails with "Session not found: id", and leaves every     *)
(* other stored session as it was; the id stays absent until a save_session  *)
(* for it; and delete_session on a valid UUID that is not stored returns Ok  *)
(* and changes no file.                                                      *)
C27_DeleteThenNotFound ==
    [][\A id \in StorageIds :
          /\ \A removeOk \in BOOLEAN :
                (delete_session(id, removeOk) /\ ret'.ok)
                => /\ LoadOf(files', id, TRUE) = Err("Session not found: " \o id)
                   /\ \A other \in DOMAIN files \ {id} :
                          other \in DOMAIN files' /\ files'[other] = files[other]
          /\ (id \in UuidIds /\ id \notin DOMAIN files)
             => /\ \A removeOk \in BOOLEAN :
                       delete_session(id, removeOk) => ret' = Ok("") /\ files' = files
                /\ \A readOk \in BOOLEAN :
                       load_session(id, readOk)
                       => ret' = Err("Session not found: " \o id)
                /\ id \in DOMAIN files'
                   => \E s \in ChatSessions, write \in Writes :
                          /\ s.id = id
                          /\ \E ms \in MessageLists(id) : save_session(s, ms, write)]_vars

\* a delete returned Ok and no session is stored
C27_Witness == ret = Ok("") /\ files = EmptyMap

----------------------------------------------------------------------------
\* an absolute path: its first character is a slash
IsAbsolute(path) == Len(path) > 0 /\ path[1] = "/"

(* C28: for every absolute project path, decoding the directory name that    *)
(* encode_project_path gives it returns the path itself, also when a         *)
(* component of the path holds a hyphen.                                     *)
C28_PathRoundTrip ==
    (project.decoded.some /\ IsAbsolute(project.path))
    => project.decoded.val = project.path

----------------------------------------------------------------------------
\* the last line p's pump has read is a wrapped message_stop
AfterStop(p) == Len(lines[p]) > 0 /\ IsStop(lines[p][Len(lines[p])])

\* no result line among lines i..n of ls
NoResultIn(ls, i, n) == \A k \in i..n : ls[k] # ResultLine

(* C31: in each of the three pumps, the step that reads a wrapped            *)
(* message_stop line emits one MessageComplete with the current message id   *)
(* and the accumulated content (when the emit succeeds) and leaves both      *)
(* ParseState fields as they were; hence, when the last line read is a       *)
(* message_stop of a message that was started and not finalized by a result  *)
(* line, currentMessageId is still that non-empty id, also once stdout has   *)
(* closed.                                                                   *)
C31_StopKeepsState ==
    [][\A p \in Procs :
          /\ Reads(p, WStop)
             => /\ pump'[p].cur = pump[p].cur
                /\ pump'[p].acc = pump[p].acc
                /\ pump'[p].pc # "failed"
                   => /\ Len(Emitted(p)) = 1
                      /\ Emitted(p)[1].ev = MessageComplete(pump[p].cur, pump[p].acc)
          /\ LET n == Len(lines'[p])
                 i == LastStart(lines'[p], n)
             IN  (AfterStop(p)' /\ i > 0 /\ NoResultIn(lines'[p], i, n))
                 => /\ pump'[p].cur # ""
                    /\ pump'[p].cur = lines'[p][i].eid]_vars

\* a resumed stream read message_start m1, a delta and message_stop, then stdout
\* closed: the MessageComplete was emitted and currentMessageId is still m1
C31_Witness ==
    \E p \in Procs :
        /\ child[p].kind = "resume"
        /\ lines[p] = <<WStart("m1"), WDelta("a"), WStop>>
        /\ sink[p][3].ev = MessageComplete("m1", "a")
        /\ pump[p].pc = "done"
        /\ pump[p].cur = "m1"

----------------------------------------------------------------------------
\* l is a verbose assistant line with a message id
IsAssistant(l) == l.raw = "json" /\ l.type = "assistant" /\ l.mid # Absent

\* block i of the assistant line l is its first block that holds a text
IsFirstText(l, i) ==
    /\ i \in 1..Len(l.content)
    /\ l.content[i] # Absent
    /\ \A k \in 1..(i - 1) : l.content[k] = Absent

(* C32: in the pumps of Create and Resume, the step that reads a verbose     *)
(* assistant line with message.id m emits at most one event; when            *)
(* currentMessageId is empty and the first content block that holds a text   *)
(* holds t, the step sets currentMessageId to m and accumulatedContent to t  *)
(* and emits exactly ContentDelta{m, t}, whatever text blocks follow in the  *)
(* line.                                                                     *)
C32_FirstAssistant ==
    [][\A p \in Procs : \A l \in VerboseLines :
          (child[p].kind \in {"resume", "create"} /\ IsAssistant(l) /\ Reads(p, l))
          => /\ Len(Emitted(p)) <= 1
             /\ \A i \in 1..Len(l.content) :
                    (pump[p].cur = "" /\ IsFirstText(l, i))
                    => /\ pump'[p].cur = l.mid
                       /\ pump'[p].acc = l.content[i]
                       /\ Len(Emitted(p)) = 1
                       /\ Emitted(p)[1].ev = ContentDelta(l.mid, l.content[i])]_vars

\* a created stream read, as its first line, an assistant line of m1 with a
\* tool_use block and then the text blocks "b" and "a": one ContentDelta{m1, "b"}
C32_Witness ==
    \E p \in Procs :
        /\ child[p].kind = "create"
        /\ lines[p] = <<Assistant("m1", <<Absent, "b", "a">>)>>
        /\ Len(sink[p]) = 1
        /\ sink[p][1].ev = ContentDelta("m1", "b")
        /\ pump[p].cur = "m1"
        /\ pump[p].acc = "b"

----------------------------------------------------------------------------
(* C39: every ContentDelta a pump emits carries the currentMessageId the     *)
(* pump holds when it emits it, so that the MessageComplete built from that  *)
(* id later carries the id of the deltas before it; also in a verbose stream *)
(* whose later assistant line has another message.id than the first.         *)
C39_DeltaCarriesCurrentId ==
    [][\A p \in Procs : \A i \in 1..Len(Emitted(p)) :
          IsDeltaEv(Emitted(p)[i].ev)
          => Emitted(p)[i].ev.messageId = pump'[p].cur]_vars

----------------------------------------------------------------------------
\* the step put a handle into map m: under a new key, or in place of another one
Inserted(m, n) == \E k \in DOMAIN n : k \notin DOMAIN m \/ n[k] # m[k]

\* the step is a registration: the insert of Create, Resume or the chat spawn,
\* or the insert under the announced id in the reconciliation
Registration == Inserted(procs, procs') \/ Inserted(streamProcs, streamProcs')

(* C33: a registration never replaces the entry of a subprocess that is      *)
(* still alive: every running subprocess that was registered before the      *)
(* step is registered after it, also when Resume(X) is called while X runs   *)
(* or a created stream announces an id that is registered already.           *)
C33_InsertKeepsLive ==
    [][\A p \in Procs :
          (Registration /\ Registered(p) /\ child[p].alive) => Registered(p)']_vars

\* the step is the end-of-stream clean up of p's pump: the remove of
\* resume_session, create_session or spawn_claude_stream
CleansUp(p) ==
    /\ pump[p].pc \in {"reading", "flushed"}
    /\ pump'[p].pc \in {"done", "waiting"}

(* C34: the end-of-stream clean up of a pump removes no entry of another     *)
(* stream: a subprocess that runs, whose pump reads and that is registered   *)
(* stays registered over the clean up of any other stream, also when both    *)
(* were started for one session id.                                          *)
C34_CleanupOwnEntry ==
    [][\A p \in Procs : \A q \in Procs \ {p} :
          (CleansUp(p) /\ Registered(q) /\ child[q].alive /\ pump[q].pc = "reading")
          => Registered(q)']_vars

(* C35: once the pump of a stream started by Create has ended, the registry  *)
(* holds no entry for its subprocess, under the temporary key or under any   *)
(* id a system line announced, whatever lines the stream held.               *)
C35_CreateLeavesNoEntry ==
    \A p \in Procs :
        (child[p].kind = "create" /\ pump[p].pc = "done") => ~Registered(p)

----------------------------------------------------------------------------
\* the created stream p has been re-keyed: its handle is registered under the id x
RekeyedTo(p, x) == child[p].kind = "create" /\ x \in DOMAIN procs /\ procs[x] = p

(* C36: while a created stream is registered under the real id X it was      *)
(* re-keyed to, Cancel of its temporary key returns NotRunning and changes   *)
(* neither the registry nor any subprocess; Cancel of any key other than X   *)
(* leaves the subprocess as it is and registered under X; and a Cancel of X  *)
(* whose kill succeeds removes the entry and terminates the subprocess.      *)
C36_CancelAfterRekey ==
    [][\A p \in Procs : \A x \in SessionIds :
          RekeyedTo(p, x)
          => /\ \A killOk \in BOOLEAN :
                    cancel_session(child[p].key, killOk)
                    => /\ ret' = NotRunning
                       /\ procs' = procs
                       /\ child' = child
             /\ \A k \in AllKeys \ {x} : \A killOk \in BOOLEAN :
                    cancel_session(k, killOk)
                    => /\ child'[p] = child[p]
                       /\ RekeyedTo(p, x)'
             /\ cancel_session(x, TRUE)
                => /\ ret' = Ok("")
                   /\ x \notin DOMAIN procs'
                   /\ ~child'[p].alive
                   /\ Kills(child', p) = Kills(child, p) + 1]_vars

\* a created stream announced X and is registered under X, running, and the last
\* command, a Cancel of a key that is not registered, returned NotRunning
C36_Witness ==
    \E p \in Procs :
        /\ RekeyedTo(p, "X")
        /\ pump[p].real = "X"
        /\ child[p].key \notin DOMAIN procs
        /\ child[p].alive
        /\ Kills(child, p) = 0
        /\ ret = NotRunning

----------------------------------------------------------------------------
KillError == Err("Failed to kill process")

\* the last command was a Cancel of key k, at the entry point of the streams of
\* the given kinds, whose kill failed
KillFailedAt(k, kinds) ==
    /\ ret = KillError
    /\ \E p \in Procs :
           /\ child[p].kind \in kinds
           /\ child[p].key = k \/ pump[p].real = k
           /\ Len(child[p].fate) > 0
           /\ child[p].fate[Len(child[p].fate)] = "kill_err"

(* C37: at both cancel entry points, a Cancel of a registered key whose kill *)
(* fails returns the kill error and has removed the key from the registry;   *)
(* and the retry of that Cancel, with the key still absent, returns          *)
(* NotRunning and changes no registry.                                       *)
C37_KillErrorRemovesKey ==
    [][\A k \in AllKeys :
          /\ (k \in DOMAIN procs /\ cancel_session(k, FALSE))
             => ret' = KillError /\ k \notin DOMAIN procs'
          /\ (k \in DOMAIN streamProcs /\ cancel_stream(k, FALSE))
             => ret' = KillError /\ k \notin DOMAIN streamProcs'
          /\ \A killOk \in BOOLEAN :
                /\ (KillFailedAt(k, {"resume", "create"}) /\ k \notin DOMAIN procs
                        /\ cancel_session(k, killOk))
                   => ret' = NotRunning /\ procs' = procs
                /\ (KillFailedAt(k, {"chat"}) /\ k \notin DOMAIN streamProcs
                        /\ cancel_stream(k, killOk))
                   => ret' = NotRunning /\ streamProcs' = streamProcs]_vars

----------------------------------------------------------------------------
IsUpdatedEv(e) == e.type = "sessionIdUpdated"

(* C40: a created stream emits SessionIdUpdated{T, X} only in a step whose   *)
(* rekey moved its registry entry from the temporary key T to X, and only    *)
(* if it has emitted no SessionIdUpdated before: none when T is already      *)
(* absent from the registry, none for a second system line.                  *)
C40_UpdatedOnlyOnRekey ==
    [][\A p \in Procs : \A i \in 1..Len(Emitted(p)) :
          IsUpdatedEv(Emitted(p)[i].ev)
          => /\ child[p].key \in DOMAIN procs
             /\ procs[child[p].key] = p
             /\ child[p].key \notin DOMAIN procs'
             /\ Emitted(p)[i].ev.realId \in DOMAIN procs'
             /\ procs'[Emitted(p)[i].ev.realId] = p
             /\ \A n \in 1..Len(sink[p]) : ~IsUpdatedEv(sink[p][n].ev)]_vars

----------------------------------------------------------------------------
(* C38: the registry lock is never held over a wait that may not end: under  *)
(* the runtime's scheduling, whenever the StreamProcesses lock is held it is *)
(* released again, so that a Cancel, which starts by taking the lock, gets   *)
(* it and returns, whatever the subprocesses of the other streams do.        *)
C38_LockReleased == (streamLock # 0) ~> (streamLock = 0)
====
